---- MODULE Spec2Model ----
(***************************************************************************)
(* A model of the tstorage partition list (partitionListImpl and its      *)
(* iterator) and of the memory partition (memoryPartition, memoryMetric). *)
(*                                                                         *)
(* Spec      the partition list, its operations called one at a time      *)
(* SpecConc  the partition list, its operations interleaved at every      *)
(*           access to shared memory                                       *)
(* SpecHead  getHead interleaved with insert and remove                   *)
(* SpecIter  one traversal of the partition list interleaved with swaps   *)
(* SpecMem   one memory partition, insertRows called one at a time        *)
(* SpecMemConc  one memory partition, insertRows calls interleaved        *)
(* SpecRead  one insertRows caller and one selectDataPoints call,          *)
(*           interleaved at every access to shared memory                  *)
(* SpecStorage  Select over a list of seeded memory partitions             *)
(* SpecCodec  points encoded into a stream, flushed and decoded            *)
(* SpecSelect  the same with selectDataPoints called between the batches  *)
(* SpecEncode  the same with encodeAllPoints called between the batches   *)
(***************************************************************************)
EXTENDS Integers, Sequences, FiniteSets, TLC

\* ------------------------------------------------------------------ bounds

\* Partitions ever created: 1..NumParts. The callers of insert and swap pass
\* a partition they have just created, so each partition is put in the list
\* at most once and NumParts also bounds the nodes ever allocated.
NumParts == 4
\* Threads calling the list concurrently: 1..NumThreads.
NumThreads == 2

\* Timestamps of the rows given to insertRows: 0..MaxTs.
MaxTs == 2
\* Rows in one batch given to insertRows: 0..MaxBatch.
MaxBatch == 2
\* Rows handed to the write-ahead log over a run.
MaxRows == 3
\* The timestamp range newMemoryPartition is given, in timestamp units.
partitionDuration == 2

\* ------------------------------------------------------------ partitions

\* The nil pointer.
Nil == 0

Parts == 1..NumParts

Threads == 1..NumThreads

\* A partition's minTimestamp. Partitions 1 and 2 are two memory partitions
\* that both report 0 (no successful insert yet); the others are distinct.
minTimestamp(p) == IF p <= 2 THEN 0 ELSE p - 2

\* samePartitions that compares the partitions themselves.
samePartitions_Identity(x, y) == x = y

samePartitions(x, y) == minTimestamp(x) = minTimestamp(y)

\* ------------------------------------------------------------------ state

VARIABLES
    pl,        \* partitionListImpl: [numPartitions, head, tail]
    nodes,     \* the heap of partitionNode: node -> [val, next]
    cleaned,   \* partition -> number of clean() calls made on it
    last,      \* the last call that returned and its result
    th,        \* thread -> the call it is in: its place and its locals
    mp,        \* memoryPartition: [numPoints, minT, maxT, once]
    metrics,   \* memoryPartition.metrics: name -> memoryMetric, or NoMetric
    wal,       \* the write-ahead log: [appends, rows, failed], the calls and
               \* rows it took and whether it refused a call
    mlast,     \* the last memoryPartition call that returned and its result
    wr,        \* writer -> the insertRows call it is in: its place and locals
    objs,      \* the heap of memoryMetric, for calls that interleave:
               \* <<writer that made it, name>> -> memoryMetric, or NoMetric
    reg,       \* metrics for calls that interleave: name -> the object
               \* stored under it, or NoObj
    rd,        \* the selectDataPoints call that interleaves with them: its
               \* place, its locals and what it returned
    st,        \* storage: the memory partitions of its list from head to
               \* tail, the timestamps inserted, and the last Select
    cod        \* the codec: the points given to the encoder, the encoder,
               \* the stream, the decoder and the points it returned

listVars == <<pl, nodes, cleaned, last>>

writerVars == <<wr, objs, reg, rd>>

\* The state of the parts that are called as functions of their inputs.
pureVars == <<st, cod>>

memVars == <<mp, metrics, wal, mlast, writerVars, pureVars>>

\* A partition is carried by at most one node, and a node's val never
\* changes, so a node is named by the partition it carries: the node of
\* partition p is node p, and NoNode is the node not allocated yet.
NoNode == [val |-> Nil, next |-> Nil]

\* A freshly allocated partitionNode{val: p, next: n}.
newNode(p, n) == [val |-> p, next |-> n]

\* node.setNext(n) on the heap ns.
setNext(ns, node, n) == [ns EXCEPT ![node].next = n]

\* node.getNext().
getNext(ns, node) == ns[node].next

\* The node ids an iterator started at node h visits, in order.
RECURSIVE Walk(_, _, _)
Walk(ns, h, fuel) ==
    IF h = Nil \/ fuel = 0 THEN <<>>
    ELSE <<h>> \o Walk(ns, getNext(ns, h), fuel - 1)

Chain(l, ns) == Walk(ns, l.head, NumParts + 1)

Range(s) == {s[i] : i \in 1..Len(s)}

\* Between two calls only head and tail point into the heap. A node that
\* neither reaches is garbage, which the Go runtime frees: the heap keeps of
\* it only that its partition was once put in the list.
collect(l, ns) ==
    LET live == Range(Walk(ns, l.head, NumParts + 1))
                    \cup Range(Walk(ns, l.tail, NumParts + 1))
    IN  [p \in Parts |->
            IF p \in live \/ ns[p] = NoNode THEN ns[p] ELSE newNode(p, Nil)]

\* The partitions an iteration from head yields.
Values(l, ns) == [i \in 1..Len(Chain(l, ns)) |-> ns[Chain(l, ns)[i]].val]

size(l) == l.numPartitions

\* The index in chain c of the first node whose partition is the same
\* partition as target, 0 when there is none (the scan of remove and swap).
FirstMatch(ns, c, target) ==
    IF \E i \in 1..Len(c) : samePartitions(ns[c[i]].val, target)
    THEN CHOOSE i \in 1..Len(c) :
            /\ samePartitions(ns[c[i]].val, target)
            /\ \A j \in 1..(i - 1) : ~samePartitions(ns[c[j]].val, target)
    ELSE 0

\* getHead(): nil on an empty list, else the head node's partition.
\* "panic" stands for the nil dereference p.head.value().
getHead(l, ns) ==
    IF size(l) <= 0 THEN Nil
    ELSE IF l.head = Nil THEN "panic" ELSE ns[l.head].val

\* The record of a call that returned: the operation, whether it returned
\* an error and which, and for remove and swap the place pos of the matched
\* node in a list of len nodes.
Call(op, err, why, pos, len) ==
    [op |-> op, err |-> err, why |-> why, pos |-> pos, len |-> len]

\* The partitions that were put in the list so far (their nodes stay on the
\* heap after they are unlinked).
Used(ns) == {p \in Parts : ns[p] # NoNode}

Fresh(ns) == Parts \ Used(ns)

NoCall == Call("none", FALSE, "", 0, 0)

InitList ==
    /\ pl = [numPartitions |-> 0, head |-> Nil, tail |-> Nil]
    /\ nodes = [p \in Parts |-> NoNode]
    /\ cleaned = [p \in Parts |-> 0]
    /\ last = NoCall

\* ------------------------------------------------- insert, one at a time

\* insert that leaves numPartitions as it was.
insertList_NoCount(l, p) == [l EXCEPT !.head = p]

\* The list after insert(p): a new node in front of the old head.
insertList(l, p) ==
    [l EXCEPT !.head = p, !.numPartitions = @ + 1]

\* insert whose new node is not linked to the old head.
insertHeap_NoLink(l, ns, p) == [ns EXCEPT ![p] = newNode(p, Nil)]

\* The heap after insert(p): the new node, its next the old head.
insertHeap(l, ns, p) == [ns EXCEPT ![p] = newNode(p, l.head)]

insert(p) ==
    /\ pl' = insertList(pl, p)
    /\ nodes' = insertHeap(pl, nodes, p)
    /\ UNCHANGED cleaned
    /\ last' = Call("insert", FALSE, "", 0, Len(Chain(pl, nodes)))

\* ------------------------------------------------- remove, one at a time

\* A scan that stops at the last node when no node matches.
scan_LastOnMiss(l, ns, target) ==
    LET c == Chain(l, ns)
        f == FirstMatch(ns, c, target)
        i == IF f = 0 THEN Len(c) ELSE f
    IN  IF i = 0 THEN [cur |-> Nil, prev |-> Nil, next |-> Nil, pos |-> 0]
        ELSE [cur  |-> c[i],
              prev |-> IF i = 1 THEN Nil ELSE c[i - 1],
              next |-> getNext(ns, c[i]),
              pos  |-> i]

\* The scan of remove and swap over the list: the matched node "cur", its
\* predecessor "prev" and its successor "next" (Nil where there is none).
scan(l, ns, target) ==
    LET c == Chain(l, ns)
        i == FirstMatch(ns, c, target)
    IN  IF i = 0 THEN [cur |-> Nil, prev |-> Nil, next |-> Nil, pos |-> 0]
        ELSE [cur  |-> c[i],
              prev |-> IF i = 1 THEN Nil ELSE c[i - 1],
              next |-> getNext(ns, c[i]),
              pos  |-> i]

\* remove that leaves numPartitions as it was.
removeList_KeepCount(l, m) ==
    [l EXCEPT !.head = IF m.prev = Nil THEN m.next ELSE @,
              !.tail = IF m.prev # Nil /\ m.next = Nil THEN m.prev ELSE @]

\* The switch of remove: the list record after unlinking m.cur.
removeList(l, m) ==
    [l EXCEPT !.head = IF m.prev = Nil THEN m.next ELSE @,
              !.tail = IF m.prev # Nil /\ m.next = Nil THEN m.prev ELSE @,
              !.numPartitions = @ - 1]

\* remove that cuts the list after the predecessor of the matched node.
removeHeap_DropRest(ns, m) ==
    IF m.prev = Nil THEN ns ELSE setNext(ns, m.prev, Nil)

\* The switch of remove: the heap after unlinking m.cur.
removeHeap(ns, m) ==
    IF m.prev = Nil THEN ns ELSE setNext(ns, m.prev, m.next)

\* partition.clean() called on p.
clean(c, p) == [c EXCEPT ![p] = @ + 1]

\* remove(target); cleanErr is whether clean() of the matched partition fails.
remove(target) ==
    LET m == scan(pl, nodes, target)
    IN  IF size(pl) <= 0
        THEN /\ UNCHANGED <<pl, nodes, cleaned>>
             /\ last' = Call("remove", TRUE, "empty", 0,
                              Len(Chain(pl, nodes)))
        ELSE IF m.cur = Nil
        THEN /\ UNCHANGED <<pl, nodes, cleaned>>
             /\ last' = Call("remove", TRUE, "notfound", 0,
                              Len(Chain(pl, nodes)))
        ELSE /\ pl' = removeList(pl, m)
             /\ nodes' = collect(removeList(pl, m), removeHeap(nodes, m))
             /\ cleaned' = clean(cleaned, nodes[m.cur].val)
             /\ \E cleanErr \in BOOLEAN :
                    last' = Call("remove", cleanErr,
                                 IF cleanErr THEN "clean" ELSE "", m.pos,
                                 Len(Chain(pl, nodes)))

\* --------------------------------------------------- swap, one at a time

\* The switch of swap: the list record after putting node n in m.cur's place.
swapList(l, m, n) ==
    [l EXCEPT !.head = IF m.prev = Nil THEN n ELSE @,
              !.tail = IF m.prev # Nil /\ m.next = Nil THEN n ELSE @]

\* swap whose new node does not take over the successor.
swapNode_NoNext(ns, new, current) == newNode(new, Nil)

\* swap whose new node points back at the node it replaces.
swapNode_KeepOld(ns, new, current) == newNode(new, current)

\* The node swap makes: partitionNode{val: new, next: current.getNext()}.
swapNode(ns, new, current) == newNode(new, getNext(ns, current))

\* The heap after swap: the new node, carrying new and m.cur's successor,
\* linked after m.prev.
swapHeap(ns, m, new) ==
    LET ns1 == [ns EXCEPT ![new] = swapNode(ns, new, m.cur)]
    IN  IF m.prev = Nil THEN ns1 ELSE setNext(ns1, m.prev, new)

swap(old, new) ==
    LET m == scan(pl, nodes, old)
    IN  IF size(pl) <= 0
        THEN /\ UNCHANGED <<pl, nodes, cleaned>>
             /\ last' = Call("swap", TRUE, "empty", 0,
                              Len(Chain(pl, nodes)))
        ELSE IF m.cur = Nil
        THEN /\ UNCHANGED <<pl, nodes, cleaned>>
             /\ last' = Call("swap", TRUE, "notfound", 0,
                              Len(Chain(pl, nodes)))
        ELSE /\ pl' = swapList(pl, m, new)
             /\ nodes' = collect(swapList(pl, m, new), swapHeap(nodes, m, new))
             /\ UNCHANGED cleaned
             /\ last' = Call("swap", FALSE, "", m.pos,
                              Len(Chain(pl, nodes)))


\* ------------------------------------- the list, calls that interleave
\*
\* Every access to the list's shared memory is one step: a read of head
\* under RLock, setHead and setTail under Lock, getNext and setNext under
\* the node's lock, an atomic load or add of numPartitions. Each critical
\* section of the code holds exactly one such access, so no step ever waits
\* for a lock. What a call keeps between its steps is in th[t].

\* pos is not in the code: it counts the nodes a scan has moved to.
Idle ==
    [pc |-> "idle", op |-> "none", arg |-> Nil, new |-> Nil, prev |-> Nil,
     cur |-> Nil, next |-> Nil, visited |-> <<>>, err |-> "", pos |-> 0]

\* Partitions no call has been given yet.
Unclaimed ==
    {p \in Parts :
        /\ nodes[p] = NoNode
        /\ \A t \in Threads : th[t].new # p
        /\ \A t \in Threads : ~(th[t].op = "insert" /\ th[t].arg = p)}

Returned(t) == th[t].pc = "done"

\* insert: the new node is made and head is read.
InsertRead(t, p) ==
    /\ th[t].pc = "idle"
    /\ p \in Unclaimed
    /\ th' = [th EXCEPT ![t] = [Idle EXCEPT !.pc = "ins_set", !.op = "insert",
                                            !.arg = p, !.next = pl.head]]
    /\ UNCHANGED <<pl, nodes, cleaned, last, memVars>>

\* insert: node.next = head, when head was not nil, and setHead(node).
InsertSetHead(t) ==
    /\ th[t].pc = "ins_set"
    /\ nodes' = [nodes EXCEPT ![th[t].arg] = newNode(th[t].arg, th[t].next)]
    /\ pl' = [pl EXCEPT !.head = th[t].arg]
    /\ th' = [th EXCEPT ![t].pc = "ins_add"]
    /\ UNCHANGED <<cleaned, last, memVars>>

\* insert: atomic.AddInt64(&p.numPartitions, 1).
InsertAdd(t) ==
    /\ th[t].pc = "ins_add"
    /\ pl' = [pl EXCEPT !.numPartitions = @ + 1]
    /\ th' = [th EXCEPT ![t].pc = "done"]
    /\ UNCHANGED <<nodes, cleaned, last, memVars>>

\* remove and swap: the size() check they start with.
SizeCheck(t, op, target, new) ==
    /\ th[t].pc = "idle"
    /\ th' = [th EXCEPT ![t] =
                IF size(pl) <= 0
                THEN [Idle EXCEPT !.pc = "done", !.op = op, !.arg = target,
                                  !.err = "empty"]
                ELSE [Idle EXCEPT !.pc = "scan_new", !.op = op, !.arg = target,
                                  !.new = new]]
    /\ UNCHANGED <<pl, nodes, cleaned, last, memVars>>

RemoveSize(t, target) == SizeCheck(t, "remove", target, Nil)

SwapSize(t, old, new) == new \in Unclaimed /\ SizeCheck(t, "swap", old, new)

\* newIterator() reads head; the first next() moves from the dummy node to it.
ScanNew(t) ==
    /\ th[t].pc = "scan_new"
    /\ th' = [th EXCEPT ![t].cur = pl.head, ![t].pc = "scan", ![t].pos = 1]
    /\ UNCHANGED <<pl, nodes, cleaned, last, memVars>>

\* One turn of the loop of remove and swap on the current node: the end of
\* the list, a node to pass (prev = current and next()), or the match. On
\* the match remove calls next(), swap makes the new node with
\* current.getNext() as its next.
ScanStep(t) ==
    /\ th[t].pc = "scan"
    /\ LET c == th[t].cur
       IN  IF c = Nil
           THEN /\ th' = [th EXCEPT ![t].pc = "done", ![t].err = "notfound"]
                /\ UNCHANGED nodes
           ELSE IF ~samePartitions(nodes[c].val, th[t].arg)
           THEN /\ th' = [th EXCEPT ![t].prev = c, ![t].cur = getNext(nodes, c),
                                    ![t].pos = @ + 1]
                /\ UNCHANGED nodes
           ELSE IF th[t].op = "remove"
           THEN /\ th' = [th EXCEPT ![t].next = getNext(nodes, c),
                                    ![t].pc = "rem_unlink"]
                /\ UNCHANGED nodes
           ELSE /\ nodes' = [nodes EXCEPT ![th[t].new] =
                                swapNode(nodes, th[t].new, c)]
                /\ th' = [th EXCEPT ![t].pc = "swp_next"]
    /\ UNCHANGED <<pl, cleaned, last, memVars>>

\* remove: the switch on prev and next, up to the first of its two writes.
RemoveUnlink(t) ==
    /\ th[t].pc = "rem_unlink"
    /\ IF th[t].prev = Nil
       THEN /\ pl' = [pl EXCEPT !.head = th[t].next]
            /\ UNCHANGED nodes
            /\ th' = [th EXCEPT ![t].pc = "rem_dec"]
       ELSE /\ nodes' = setNext(nodes, th[t].prev, th[t].next)
            /\ UNCHANGED pl
            /\ th' = [th EXCEPT ![t].pc =
                        IF th[t].next = Nil THEN "rem_tail" ELSE "rem_dec"]
    /\ UNCHANGED <<cleaned, last, memVars>>

\* remove of the tail node: p.setTail(prev).
RemoveSetTail(t) ==
    /\ th[t].pc = "rem_tail"
    /\ pl' = [pl EXCEPT !.tail = th[t].prev]
    /\ th' = [th EXCEPT ![t].pc = "rem_dec"]
    /\ UNCHANGED <<nodes, cleaned, last, memVars>>

\* remove: atomic.AddInt64(&p.numPartitions, -1).
RemoveDec(t) ==
    /\ th[t].pc = "rem_dec"
    /\ pl' = [pl EXCEPT !.numPartitions = @ - 1]
    /\ th' = [th EXCEPT ![t].pc = "rem_clean"]
    /\ UNCHANGED <<nodes, cleaned, last, memVars>>

\* remove: current.value().clean(), which may fail.
RemoveClean(t) ==
    /\ th[t].pc = "rem_clean"
    /\ cleaned' = clean(cleaned, nodes[th[t].cur].val)
    /\ \E cleanErr \in BOOLEAN :
           th' = [th EXCEPT ![t].pc = "done",
                            ![t].err = IF cleanErr THEN "clean" ELSE ""]
    /\ UNCHANGED <<pl, nodes, last, memVars>>

\* swap: iterator.next() and next = iterator.currentNode().
SwapNext(t) ==
    /\ th[t].pc = "swp_next"
    /\ th' = [th EXCEPT ![t].next = getNext(nodes, th[t].cur),
                        ![t].pc = "swp_link"]
    /\ UNCHANGED <<pl, nodes, cleaned, last, memVars>>

\* swap: the switch on prev and next, up to the first of its two writes.
SwapLink(t) ==
    /\ th[t].pc = "swp_link"
    /\ IF th[t].prev = Nil
       THEN /\ pl' = [pl EXCEPT !.head = th[t].new]
            /\ UNCHANGED nodes
            /\ th' = [th EXCEPT ![t].pc = "done"]
       ELSE /\ nodes' = setNext(nodes, th[t].prev, th[t].new)
            /\ UNCHANGED pl
            /\ th' = [th EXCEPT ![t].pc =
                        IF th[t].next = Nil THEN "swp_tail" ELSE "done"]
    /\ UNCHANGED <<cleaned, last, memVars>>

\* swap of the tail node: p.setTail(newNode).
SwapSetTail(t) ==
    /\ th[t].pc = "swp_tail"
    /\ pl' = [pl EXCEPT !.tail = th[t].new]
    /\ th' = [th EXCEPT ![t].pc = "done"]
    /\ UNCHANGED <<nodes, cleaned, last, memVars>>

\* getHead: the size() check it starts with; nil on an empty list.
GetHeadSize(t) ==
    /\ th[t].pc = "idle"
    /\ th' = [th EXCEPT ![t] =
                IF size(pl) <= 0
                THEN [Idle EXCEPT !.pc = "done", !.op = "getHead"]
                ELSE [Idle EXCEPT !.pc = "head_read", !.op = "getHead"]]
    /\ UNCHANGED <<pl, nodes, cleaned, last, memVars>>

\* getHead: p.head.value() under RLock; cur is the partition returned, and
\* the call panics when head is nil.
GetHeadRead(t) ==
    /\ th[t].pc = "head_read"
    /\ th' = [th EXCEPT ![t] =
                IF pl.head = Nil
                THEN [@ EXCEPT !.pc = "done", !.err = "panic"]
                ELSE [@ EXCEPT !.pc = "done", !.cur = nodes[pl.head].val]]
    /\ UNCHANGED <<pl, nodes, cleaned, last, memVars>>

\* A traversal, for iterator.next() { iterator.value() }: newIterator()
\* reads head and the first next() moves to it.
IterNew(t) ==
    /\ th[t].pc = "idle"
    /\ th' = [th EXCEPT ![t] = [Idle EXCEPT !.pc = "iter", !.op = "iterate",
                                            !.cur = pl.head]]
    /\ UNCHANGED <<pl, nodes, cleaned, last, memVars>>

\* The node the iterator moves to from node n: partitionIteratorImpl.next().
iterNext(ns, n) == getNext(ns, n)

\* One turn of the traversal: value() of the current node, then next().
IterStep(t) ==
    /\ th[t].pc = "iter"
    /\ th' = [th EXCEPT ![t] =
                IF th[t].cur = Nil
                THEN [@ EXCEPT !.pc = "done"]
                ELSE [@ EXCEPT !.visited = Append(@, nodes[th[t].cur].val),
                               !.cur = iterNext(nodes, th[t].cur)]]
    /\ UNCHANGED <<pl, nodes, cleaned, last, memVars>>

\* ------------------------------------------------------ memory partition

Metrics == {"m1", "m2"}

Timestamps == 0..MaxTs

\* A Row: its marshalled metric name and the timestamp of its data point.
Rows == [metric : Metrics, ts : Timestamps]

Batches == UNION {[1..n -> Rows] : n \in 0..MaxBatch}

\* toUnix(time.Now(), precision): the clock is past every timestamp given.
now == MaxTs + 1

NoMetric == [size |-> -1]

\* The memoryMetric getMetric makes for a name it does not hold.
newMetric ==
    [size |-> 0, minTimestamp |-> 0, maxTimestamp |-> 0,
     points |-> <<>>, outOfOrderPoints |-> <<>>]

\* A getMetric that makes a new memoryMetric on every call.
getMetric_AlwaysNew(ms, name) == [ms EXCEPT ![name] = newMetric]

\* The metrics map after getMetric(name).
getMetric(ms, name) ==
    IF ms[name] = NoMetric THEN [ms EXCEPT ![name] = newMetric] ELSE ms

\* An insertPoint that appends every point to points.
insertPoint_AppendAlways(mt, ts) ==
    [mt EXCEPT !.points = Append(@, ts), !.maxTimestamp = ts,
               !.minTimestamp = IF mt.size = 0 THEN ts ELSE @,
               !.size = @ + 1]

\* An insertPoint that leaves maxTimestamp at the first point's timestamp.
insertPoint_NoMax(mt, ts) ==
    IF mt.size = 0
    THEN [mt EXCEPT !.points = Append(@, ts), !.minTimestamp = ts,
                    !.maxTimestamp = ts, !.size = @ + 1]
    ELSE IF mt.points[mt.size] < ts
    THEN [mt EXCEPT !.points = Append(@, ts), !.size = @ + 1]
    ELSE [mt EXCEPT !.outOfOrderPoints = Append(@, ts)]

\* memoryMetric.insertPoint: the series mt after the point with timestamp ts.
insertPoint(mt, ts) ==
    IF mt.size = 0
    THEN [mt EXCEPT !.points = Append(@, ts), !.minTimestamp = ts,
                    !.maxTimestamp = ts, !.size = @ + 1]
    ELSE IF mt.points[mt.size] < ts
    THEN [mt EXCEPT !.points = Append(@, ts), !.maxTimestamp = ts,
                    !.size = @ + 1]
    ELSE [mt EXCEPT !.outOfOrderPoints = Append(@, ts)]

\* The minimum timestamp of a batch: the body of once.Do.
RECURSIVE minTimestampOf(_, _)
minTimestampOf(rows, i) ==
    IF i = 1 THEN rows[1].ts
    ELSE LET min == minTimestampOf(rows, i - 1)
         IN  IF rows[i].ts < min THEN rows[i].ts ELSE min

\* A once.Do that runs its body on every batch.
onceDo_EveryBatch(m, rows) ==
    [m EXCEPT !.once = TRUE, !.minT = minTimestampOf(rows, Len(rows))]

\* m.once.Do: the latch and minT after a batch got past the log.
onceDo(m, rows) ==
    IF m.once THEN m
    ELSE [m EXCEPT !.once = TRUE, !.minT = minTimestampOf(rows, Len(rows))]

\* The loop of insertRows over rows[i..]: acc holds metrics, outdatedRows,
\* maxTimestamp and rowsNum; minT is the partition's minTimestamp().
RECURSIVE insertLoop(_, _, _, _)
insertLoop(acc, rows, i, minT) ==
    IF i > Len(rows) THEN acc
    ELSE IF rows[i].ts < minT
    THEN insertLoop([acc EXCEPT !.outdatedRows = Append(@, rows[i])],
                    rows, i + 1, minT)
    ELSE LET ts == IF rows[i].ts = 0 THEN now ELSE rows[i].ts
             ms == getMetric(acc.metrics, rows[i].metric)
         IN  insertLoop(
                 [acc EXCEPT
                     !.metrics = [ms EXCEPT ![rows[i].metric] = insertPoint(@, ts)],
                     !.maxTimestamp = IF ts > @ THEN ts ELSE @,
                     !.rowsNum = @ + 1],
                 rows, i + 1, minT)

\* A wal.append that returns nil and keeps no row.
walAppend_NoRows(w, rows) == [w EXCEPT !.appends = @ + 1]

\* wal.append(operationInsert, rows) that returns nil.
walAppend(w, rows) ==
    [w EXCEPT !.appends = @ + 1, !.rows = @ + Len(rows)]

\* What a call of insertRows leaves: the partition, its series, the log,
\* whether it returned an error and which, and the rows it returned.
Outcome(m, ms, w, why, outdated) ==
    [mp |-> m, metrics |-> ms, wal |-> w, err |-> why # "", why |-> why,
     outdated |-> outdated]

\* The record of a memoryPartition call that returned: the operation, whether
\* it returned an error and which ("panic" for a run-time panic), the rows
\* insertRows returned, and the batch when the log accepted it.
MCall(op, err, why, outdated, rows) ==
    [op |-> op, err |-> err, why |-> why, outdated |-> outdated,
     rows |-> rows]

\* insertRows that hands the batch to the log before it looks at its length.
noRowsGiven_Logged(m, ms, w, rows) ==
    Outcome(m, ms, walAppend(w, rows), "norows", <<>>)

\* insertRows given no rows.
noRowsGiven(m, ms, w, rows) == Outcome(m, ms, w, "norows", <<>>)

\* insertRows that runs once.Do before it hands the batch to the log.
walFailed_Latched(m, ms, w, rows) ==
    Outcome(onceDo(m, rows), ms, [w EXCEPT !.failed = TRUE], "wal", <<>>)

\* insertRows when wal.append returns an error.
walFailed(m, ms, w, rows) ==
    Outcome(m, ms, [w EXCEPT !.failed = TRUE], "wal", <<>>)

\* memoryPartition.active(): the range of the partition is below its duration.
active(m) == m.maxT - m.minT + 1 < partitionDuration

\* insertRows that turns every row away once the partition is not active.
rowsInserted_ActiveOnly(m, ms, w, rows) ==
    IF active(m)
    THEN LET m1  == onceDo(m, rows)
             acc == insertLoop([metrics |-> ms, outdatedRows |-> <<>>,
                                maxTimestamp |-> rows[1].ts, rowsNum |-> 0],
                               rows, 1, m1.minT)
             m2  == [m1 EXCEPT !.numPoints = @ + acc.rowsNum,
                               !.maxT = IF @ < acc.maxTimestamp
                                        THEN acc.maxTimestamp ELSE @]
         IN  Outcome(m2, acc.metrics, walAppend(w, rows), "",
                     acc.outdatedRows)
    ELSE Outcome(m, ms, w, "", rows)

\* insertRows that adds the length of the batch to numPoints.
rowsInserted_CountAll(m, ms, w, rows) ==
    LET m1  == onceDo(m, rows)
        acc == insertLoop([metrics |-> ms, outdatedRows |-> <<>>,
                           maxTimestamp |-> rows[1].ts, rowsNum |-> 0],
                          rows, 1, m1.minT)
        m2  == [m1 EXCEPT !.numPoints = @ + Len(rows),
                          !.maxT = IF @ < acc.maxTimestamp
                                   THEN acc.maxTimestamp ELSE @]
    IN  Outcome(m2, acc.metrics, walAppend(w, rows), "", acc.outdatedRows)

\* insertRows past the log: the latch, the loop, numPoints and maxT.
rowsInserted(m, ms, w, rows) ==
    LET m1  == onceDo(m, rows)
        acc == insertLoop([metrics |-> ms, outdatedRows |-> <<>>,
                           maxTimestamp |-> rows[1].ts, rowsNum |-> 0],
                          rows, 1, m1.minT)
        m2  == [m1 EXCEPT !.numPoints = @ + acc.rowsNum,
                          !.maxT = IF @ < acc.maxTimestamp
                                   THEN acc.maxTimestamp ELSE @]
    IN  Outcome(m2, acc.metrics, walAppend(w, rows), "", acc.outdatedRows)

\* insertRows(rows); walErr is whether wal.append returns an error.
insertRowsOutcome(m, ms, w, rows, walErr) ==
    IF Len(rows) = 0 THEN noRowsGiven(m, ms, w, rows)
    ELSE IF walErr THEN walFailed(m, ms, w, rows)
    ELSE rowsInserted(m, ms, w, rows)

insertRows(rows, walErr) ==
    LET o == insertRowsOutcome(mp, metrics, wal, rows, walErr)
    IN  /\ mp' = o.mp
        /\ metrics' = o.metrics
        /\ wal' = o.wal
        /\ mlast' = MCall("insertRows", o.err, o.why, o.outdated,
                           IF o.err THEN <<>> ELSE rows)

\* The start and end of the windows given to selectDataPoints.
QueryTimes == 0..(now + 1)

\* sort.Search(n, f) for f(i) == points[i].Timestamp >= t, between i and j:
\* a binary search, indices counted from 0 as in the code.
RECURSIVE Search(_, _, _, _)
Search(points, t, i, j) ==
    IF i >= j THEN i
    ELSE LET h == (i + j) \div 2
         IN  IF points[h + 1] >= t
             THEN Search(points, t, i, h)
             ELSE Search(points, t, h + 1, j)

\* memoryMetric.selectPoints(start, end): the points returned, or the panic
\* of the slice expression when startIdx is beyond endIdx.
selectPoints(mt, start, end) ==
    IF end <= mt.minTimestamp THEN [panic |-> FALSE, points |-> <<>>]
    ELSE LET startIdx == IF start <= mt.minTimestamp THEN 0
                         ELSE Search(mt.points, start, 0, mt.size)
             endIdx   == IF end >= mt.maxTimestamp THEN mt.size
                         ELSE Search(mt.points, end, 0, mt.size)
         IN  IF startIdx > endIdx THEN [panic |-> TRUE, points |-> <<>>]
             ELSE [panic |-> FALSE,
                   points |-> SubSeq(mt.points, startIdx + 1, endIdx)]

\* memoryPartition.selectDataPoints(metric, labels, start, end): the series
\* map it leaves, the points it returns and whether it panics.
selectDataPoints(ms, name, start, end) ==
    LET ms1 == getMetric(ms, name)
        r   == selectPoints(ms1[name], start, end)
    IN  [metrics |-> ms1, points |-> r.points, panic |-> r.panic]

\* sort.Slice by timestamp: s with t put in its place (s is sorted).
RECURSIVE sortInto(_, _)
sortInto(s, t) ==
    IF s = <<>> THEN <<t>>
    ELSE IF t < Head(s) THEN <<t>> \o s
    ELSE <<Head(s)>> \o sortInto(Tail(s), t)

RECURSIVE sortSlice(_)
sortSlice(s) ==
    IF s = <<>> THEN <<>>
    ELSE sortInto(sortSlice(SubSeq(s, 1, Len(s) - 1)), s[Len(s)])

\* A merge that gives the out-of-order point first when timestamps are equal.
RECURSIVE merge_TieToOoo(_, _)
merge_TieToOoo(o, p) ==
    IF o # <<>> /\ p # <<>>
    THEN IF Head(o) <= Head(p)
         THEN <<[ts |-> Head(o), from |-> "ooo"]>> \o merge_TieToOoo(Tail(o), p)
         ELSE <<[ts |-> Head(p), from |-> "in"]>> \o merge_TieToOoo(o, Tail(p))
    ELSE IF o # <<>>
    THEN <<[ts |-> Head(o), from |-> "ooo"]>> \o merge_TieToOoo(Tail(o), p)
    ELSE IF p # <<>>
    THEN <<[ts |-> Head(p), from |-> "in"]>> \o merge_TieToOoo(o, Tail(p))
    ELSE <<>>

\* The merge loops of encodeAllPoints over the sorted out-of-order points o
\* and the in-order points p: the points given to encoder.encodePoint, each
\* with the slice it comes from.
RECURSIVE merge(_, _)
merge(o, p) ==
    IF o # <<>> /\ p # <<>>
    THEN IF Head(o) < Head(p)
         THEN <<[ts |-> Head(o), from |-> "ooo"]>> \o merge(Tail(o), p)
         ELSE <<[ts |-> Head(p), from |-> "in"]>> \o merge(o, Tail(p))
    ELSE IF o # <<>>
    THEN <<[ts |-> Head(o), from |-> "ooo"]>> \o merge(Tail(o), p)
    ELSE IF p # <<>>
    THEN <<[ts |-> Head(p), from |-> "in"]>> \o merge(o, Tail(p))
    ELSE <<>>

\* memoryMetric.encodeAllPoints(encoder): the series after the sort, the
\* points the encoder was given and whether an error came back. failAt is
\* the call of encodePoint that returns an error, 0 when none does.
encodeAllPoints(mt, failAt) ==
    LET sorted == sortSlice(mt.outOfOrderPoints)
        all    == merge(sorted, mt.points)
        failed == failAt > 0 /\ failAt <= Len(all)
    IN  [mt  |-> [mt EXCEPT !.outOfOrderPoints = sorted],
         out |-> IF failed THEN SubSeq(all, 1, failAt) ELSE all,
         err |-> failed]

EncodeAllPoints(name, failAt) ==
    LET r == encodeAllPoints(metrics[name], failAt)
    IN  /\ metrics[name] # NoMetric
        /\ metrics' = [metrics EXCEPT ![name] = r.mt]
        /\ mlast' = MCall("encodeAllPoints", r.err,
                           IF r.err THEN "encoder" ELSE "", <<>>, <<>>)
        /\ UNCHANGED <<mp, wal>>

\* --------------------------------- memory partition, calls that interleave
\*
\* insertRows called by several goroutines on one partition. Every access to
\* memory the goroutines share is one step, except where the code makes
\* several of them indivisible (the body of once.Do, the part of insertPoint
\* under the series' lock) or where an access commutes with every other step
\* (the append to the log, the add to numPoints). A series is an object on
\* the heap, named by the writer that made it and the name it was made for.

Writers == {"w1", "w2"}

\* The batches the writers are given.
WriterBatches == UNION {[1..n -> Rows] : n \in 0..1}

NoObj == <<>>

\* The goroutine that calls selectDataPoints.
Readers == {"r1"}

Objects == (Writers \cup Readers) \X Metrics

IdleWriter ==
    [pc |-> "idle", rows |-> <<>>, i |-> 0, mt |-> NoObj, size |-> 0,
     ts |-> 0, maxTimestamp |-> 0, rowsNum |-> 0, outdated |-> <<>>,
     err |-> ""]

\* insertPoint with the size it loaded before it took the lock.
insertPointAt(mt, loaded, ts) ==
    IF loaded = 0
    THEN [mt EXCEPT !.points = Append(@, ts), !.minTimestamp = ts,
                    !.maxTimestamp = ts, !.size = @ + 1]
    ELSE IF mt.points[loaded] < ts
    THEN [mt EXCEPT !.points = Append(@, ts), !.maxTimestamp = ts,
                    !.size = @ + 1]
    ELSE [mt EXCEPT !.outOfOrderPoints = Append(@, ts)]

\* insertRows: the length check and wal.append.
WriterStart(w, rows, walErr) ==
    /\ wr[w].pc = "idle"
    /\ IF Len(rows) = 0
       THEN /\ wr' = [wr EXCEPT ![w] = [IdleWriter EXCEPT !.pc = "done",
                                                          !.err = "norows"]]
            /\ UNCHANGED wal
       ELSE IF walErr
       THEN /\ wr' = [wr EXCEPT ![w] = [IdleWriter EXCEPT !.pc = "done",
                                                          !.rows = rows,
                                                          !.err = "wal"]]
            /\ wal' = [wal EXCEPT !.failed = TRUE]
       ELSE /\ wr' = [wr EXCEPT ![w] = [IdleWriter EXCEPT !.pc = "once",
                                                          !.rows = rows]]
            /\ wal' = walAppend(wal, rows)
    /\ UNCHANGED <<mp, metrics, mlast, objs, reg, listVars, th, pureVars, rd>>

\* insertRows: m.once.Do, and the locals the loop starts with.
WriterOnce(w) ==
    /\ wr[w].pc = "once"
    /\ mp' = onceDo(mp, wr[w].rows)
    /\ wr' = [wr EXCEPT ![w].pc = "loop", ![w].i = 1,
                        ![w].maxTimestamp = wr[w].rows[1].ts]
    /\ UNCHANGED <<metrics, wal, mlast, objs, reg, listVars, th, pureVars, rd>>

\* insertRows: the head of the loop on row i, up to metrics.Load(name).
WriterLoad(w) ==
    /\ wr[w].pc = "loop"
    /\ LET rows == wr[w].rows
           i    == wr[w].i
       IN  IF i > Len(rows)
           THEN wr' = [wr EXCEPT ![w].pc = "count"]
           ELSE IF rows[i].ts < mp.minT
           THEN wr' = [wr EXCEPT ![w].outdated = Append(@, rows[i]),
                                 ![w].i = i + 1]
           ELSE LET ts == IF rows[i].ts = 0 THEN now ELSE rows[i].ts
                IN  wr' = [wr EXCEPT
                             ![w].ts = ts,
                             ![w].maxTimestamp = IF ts > @ THEN ts ELSE @,
                             ![w].mt = reg[rows[i].metric],
                             ![w].pc = IF reg[rows[i].metric] = NoObj
                                       THEN "store" ELSE "size"]
    /\ UNCHANGED <<mp, metrics, wal, mlast, objs, reg, listVars, th, pureVars, rd>>

\* getMetric after a Load that found nothing: a new memoryMetric and
\* metrics.Store(name, value).
WriterStore(w) ==
    /\ wr[w].pc = "store"
    /\ LET name == wr[w].rows[wr[w].i].metric
       IN  /\ objs' = [objs EXCEPT ![<<w, name>>] = newMetric]
           /\ reg' = [reg EXCEPT ![name] = <<w, name>>]
           /\ wr' = [wr EXCEPT ![w].mt = <<w, name>>, ![w].pc = "size"]
    /\ UNCHANGED <<mp, metrics, wal, mlast, listVars, th, pureVars, rd>>

\* insertPoint: size := atomic.LoadInt64(&m.size), before the lock.
WriterSize(w) ==
    /\ wr[w].pc = "size"
    /\ wr' = [wr EXCEPT ![w].size = objs[wr[w].mt].size, ![w].pc = "locked"]
    /\ UNCHANGED <<mp, metrics, wal, mlast, objs, reg, listVars, th, pureVars, rd>>

\* insertPoint under m.mu.Lock(), and rowsNum++.
WriterLocked(w) ==
    /\ wr[w].pc = "locked"
    /\ objs' = [objs EXCEPT ![wr[w].mt] =
                   insertPointAt(@, wr[w].size, wr[w].ts)]
    /\ wr' = [wr EXCEPT ![w].rowsNum = @ + 1, ![w].i = @ + 1,
                        ![w].pc = "loop"]
    /\ UNCHANGED <<mp, metrics, wal, mlast, reg, listVars, th, pureVars, rd>>

\* insertRows after the loop: the add to numPoints and the load of maxT.
WriterCount(w) ==
    /\ wr[w].pc = "count"
    /\ mp' = [mp EXCEPT !.numPoints = @ + wr[w].rowsNum]
    /\ wr' = [wr EXCEPT ![w].pc = IF mp.maxT < wr[w].maxTimestamp
                                  THEN "swap" ELSE "done"]
    /\ UNCHANGED <<metrics, wal, mlast, objs, reg, listVars, th, pureVars, rd>>

\* insertRows: atomic.SwapInt64(&m.maxT, maxTimestamp).
WriterSwap(w) ==
    /\ wr[w].pc = "swap"
    /\ mp' = [mp EXCEPT !.maxT = wr[w].maxTimestamp]
    /\ wr' = [wr EXCEPT ![w].pc = "done"]
    /\ UNCHANGED <<metrics, wal, mlast, objs, reg, listVars, th, pureVars, rd>>

\* The part of insertPoint under m.mu.Lock(), one shared access at a time,
\* for a writer that a reader interleaves with. The append: to points on the
\* first insertion and for a timestamp above the last point's, else to
\* outOfOrderPoints, after which the lock is released.
WriterAppend(w) ==
    /\ wr[w].pc = "locked"
    /\ LET mt == objs[wr[w].mt]
           ts == wr[w].ts
       IN  IF wr[w].size = 0
           THEN /\ objs' = [objs EXCEPT ![wr[w].mt].points = Append(@, ts)]
                /\ wr' = [wr EXCEPT ![w].pc = "set_min"]
           ELSE IF mt.points[wr[w].size] < ts
           THEN /\ objs' = [objs EXCEPT ![wr[w].mt].points = Append(@, ts)]
                /\ wr' = [wr EXCEPT ![w].pc = "set_max"]
           ELSE /\ objs' = [objs EXCEPT
                               ![wr[w].mt].outOfOrderPoints = Append(@, ts)]
                /\ wr' = [wr EXCEPT ![w].rowsNum = @ + 1, ![w].i = @ + 1,
                                    ![w].pc = "loop"]
    /\ UNCHANGED <<mp, metrics, wal, mlast, reg, listVars, th, pureVars, rd>>

\* insertPoint: atomic.StoreInt64(&m.minTimestamp, point.Timestamp).
WriterSetMin(w) ==
    /\ wr[w].pc = "set_min"
    /\ objs' = [objs EXCEPT ![wr[w].mt].minTimestamp = wr[w].ts]
    /\ wr' = [wr EXCEPT ![w].pc = "set_max"]
    /\ UNCHANGED <<mp, metrics, wal, mlast, reg, listVars, th, pureVars, rd>>

\* insertPoint: atomic.StoreInt64(&m.maxTimestamp, point.Timestamp).
WriterSetMax(w) ==
    /\ wr[w].pc = "set_max"
    /\ objs' = [objs EXCEPT ![wr[w].mt].maxTimestamp = wr[w].ts]
    /\ wr' = [wr EXCEPT ![w].pc = "add_size"]
    /\ UNCHANGED <<mp, metrics, wal, mlast, reg, listVars, th, pureVars, rd>>

\* insertPoint: atomic.AddInt64(&m.size, 1), the unlock, and rowsNum++.
WriterAddSize(w) ==
    /\ wr[w].pc = "add_size"
    /\ objs' = [objs EXCEPT ![wr[w].mt].size = @ + 1]
    /\ wr' = [wr EXCEPT ![w].rowsNum = @ + 1, ![w].i = @ + 1,
                        ![w].pc = "loop"]
    /\ UNCHANGED <<mp, metrics, wal, mlast, reg, listVars, th, pureVars, rd>>

\* insertRows returned: the goroutine is free to call it again.
WriterReturn(w) ==
    /\ wr[w].pc = "done"
    /\ wr' = [wr EXCEPT ![w] = IdleWriter]
    /\ UNCHANGED <<mp, metrics, wal, mlast, objs, reg, listVars, th, pureVars, rd>>

\* Whether a writer holds the lock of series o.
LockHeld(o) ==
    \E w \in Writers :
        wr[w].mt = o /\ wr[w].pc \in {"set_min", "set_max", "add_size"}

IdleReader ==
    [pc |-> "idle", name |-> "", start |-> 0, end |-> 0, mt |-> NoObj,
     size |-> 0, minTimestamp |-> 0, maxTimestamp |-> 0, points |-> <<>>,
     panic |-> FALSE]

\* selectDataPoints(name, start, end): getMetric up to metrics.Load(name).
\* No step before the first use of start and end depends on them, so the
\* window is drawn where it is first used.
ReaderLoad(r, name) ==
    /\ rd.pc = "idle"
    /\ rd' = [IdleReader EXCEPT !.name = name, !.mt = reg[name],
                                !.pc = IF reg[name] = NoObj
                                       THEN "store" ELSE "size"]
    /\ UNCHANGED <<mp, metrics, wal, mlast, wr, objs, reg, listVars, th, pureVars>>

\* getMetric after a Load that found nothing: a new memoryMetric and
\* metrics.Store(name, value).
ReaderStore(r) ==
    /\ rd.pc = "store"
    /\ objs' = [objs EXCEPT ![<<r, rd.name>>] = newMetric]
    /\ reg' = [reg EXCEPT ![rd.name] = <<r, rd.name>>]
    /\ rd' = [rd EXCEPT !.mt = <<r, rd.name>>, !.pc = "size"]
    /\ UNCHANGED <<mp, metrics, wal, mlast, wr, listVars, th, pureVars>>

\* selectPoints: size := atomic.LoadInt64(&m.size).
ReaderSize(r) ==
    /\ rd.pc = "size"
    /\ rd' = [rd EXCEPT !.size = objs[rd.mt].size, !.pc = "min"]
    /\ UNCHANGED <<mp, metrics, wal, mlast, wr, objs, reg, listVars, th, pureVars>>

\* selectPoints: minTimestamp := atomic.LoadInt64(&m.minTimestamp).
ReaderMin(r) ==
    /\ rd.pc = "min"
    /\ rd' = [rd EXCEPT !.minTimestamp = objs[rd.mt].minTimestamp,
                        !.pc = "max"]
    /\ UNCHANGED <<mp, metrics, wal, mlast, wr, objs, reg, listVars, th, pureVars>>

\* selectPoints: maxTimestamp := atomic.LoadInt64(&m.maxTimestamp), and the
\* return of no points when end <= minTimestamp.
ReaderMax(r, start, end) ==
    /\ rd.pc = "max"
    /\ rd' = [rd EXCEPT !.maxTimestamp = objs[rd.mt].maxTimestamp,
                        !.start = start, !.end = end,
                        !.pc = IF end <= rd.minTimestamp
                               THEN "done" ELSE "slice"]
    /\ UNCHANGED <<mp, metrics, wal, mlast, wr, objs, reg, listVars, th, pureVars>>

\* selectPoints under m.mu.RLock(), with the size, minTimestamp and
\* maxTimestamp it loaded before: the two searches and the slice expression.
\* A search that indexes past the points and a slice with startIdx beyond
\* endIdx panic.
selectPointsAt(mt, loaded, minT, maxT, start, end) ==
    IF loaded > Len(mt.points) /\ (start > minT \/ end < maxT)
    THEN [panic |-> TRUE, points |-> <<>>]
    ELSE LET startIdx == IF start <= minT THEN 0
                         ELSE Search(mt.points, start, 0, loaded)
             endIdx   == IF end >= maxT THEN loaded
                         ELSE Search(mt.points, end, 0, loaded)
         IN  IF startIdx > endIdx THEN [panic |-> TRUE, points |-> <<>>]
             ELSE [panic |-> FALSE,
                   points |-> SubSeq(mt.points, startIdx + 1, endIdx)]

ReaderSlice(r) ==
    /\ rd.pc = "slice"
    /\ ~LockHeld(rd.mt)
    /\ LET res == selectPointsAt(objs[rd.mt], rd.size, rd.minTimestamp,
                                 rd.maxTimestamp, rd.start, rd.end)
       IN  rd' = [rd EXCEPT !.points = res.points, !.panic = res.panic,
                            !.pc = "done"]
    /\ UNCHANGED <<mp, metrics, wal, mlast, wr, objs, reg, listVars, th, pureVars>>

InitMem ==
    /\ mp = [numPoints |-> 0, minT |-> 0, maxT |-> 0, once |-> FALSE]
    /\ metrics = [name \in Metrics |-> NoMetric]
    /\ wal = [appends |-> 0, rows |-> 0, failed |-> FALSE]
    /\ mlast = MCall("none", FALSE, "", <<>>, <<>>)
    /\ wr = [w \in Writers |-> IdleWriter]
    /\ objs = [o \in Objects |-> NoMetric]
    /\ reg = [name \in Metrics |-> NoObj]
    /\ rd = IdleReader

\* ---------------------------------------------------------------- storage
\*
\* Select over the partition list. The partitions are memory partitions
\* filled by insertRows; the walk over them is taken from the engine's
\* description.

\* Timestamps of the rows the partitions are seeded with: 1..MaxSeedTs.
MaxSeedTs == 4
\* Partitions in the storage's list.
MaxSeeded == 3

\* The metric the partitions hold.
SeedMetric == CHOOSE name \in Metrics : TRUE

\* newMemoryPartition(nil, ...) after insertRows(rows).
seededPartition(rows) ==
    LET o == rowsInserted([numPoints |-> 0, minT |-> 0, maxT |-> 0,
                           once |-> FALSE],
                          [name \in Metrics |-> NoMetric],
                          [appends |-> 0, rows |-> 0, failed |-> FALSE], rows)
    IN  [mp |-> o.mp, metrics |-> o.metrics]

\* The timestamps of set, ascending.
RECURSIVE Ascending(_)
Ascending(set) ==
    IF set = {} THEN <<>>
    ELSE LET t == CHOOSE x \in set : \A y \in set : x <= y
         IN  <<t>> \o Ascending(set \ {t})

\* Whether [minTs, maxTs] of partition p meets [start, end).
intersects(p, start, end) ==
    start < end /\ p.mp.minT < end /\ start <= p.mp.maxT

\* Select over parts[1..i], parts from head to tail: selectDataPoints on
\* every partition that meets the window, the results gathered tail first.
RECURSIVE gather(_, _, _, _, _)
gather(parts, i, name, start, end) ==
    IF i = 0 THEN <<>>
    ELSE (IF intersects(parts[i], start, end)
          THEN selectDataPoints(parts[i].metrics, name, start, end).points
          ELSE <<>>)
         \o gather(parts, i - 1, name, start, end)

\* storage.Select(metric, labels, start, end).
Select(parts, name, start, end) == gather(parts, Len(parts), name, start, end)

NoSelect == [done |-> FALSE, start |-> 0, end |-> 0, points |-> <<>>]

InitStorage == st = [parts |-> <<>>, inserted |-> <<>>, sel |-> NoSelect]

\* A new memory partition, seeded with rows above every timestamp inserted
\* before, is put at the head of the list.
SeedPartition ==
    /\ Len(st.parts) < MaxSeeded
    /\ \E set \in SUBSET (1..MaxSeedTs) :
           /\ set # {}
           /\ \A t \in set : \A u \in Range(st.inserted) : u < t
           /\ LET ts   == Ascending(set)
                  rows == [i \in 1..Len(ts) |->
                              [metric |-> SeedMetric, ts |-> ts[i]]]
              IN  st' = [parts |-> <<seededPartition(rows)>> \o st.parts,
                         inserted |-> st.inserted \o ts,
                         sel |-> NoSelect]
    /\ UNCHANGED <<listVars, th, mp, metrics, wal, mlast, writerVars, cod>>

StorageSelect ==
    /\ Len(st.parts) >= 1
    /\ \E start \in 0..(MaxSeedTs + 1), end \in 0..(MaxSeedTs + 1) :
           st' = [st EXCEPT !.sel =
                     [done |-> TRUE, start |-> start, end |-> end,
                      points |-> Select(st.parts, SeedMetric, start, end)]]
    /\ UNCHANGED <<listVars, th, mp, metrics, wal, mlast, writerVars, cod>>

\* ------------------------------------------------------------------ codec
\*
\* The series encoder and decoder, taken from the codec's description. An
\* int64 and the bit pattern of a float64 are sequences of 64 bits, the most
\* significant first, and the stream is a sequence of bits.

\* Points given to one encoder.
MaxPoints == 3

Zeros(n) == [i \in 1..n |-> 0]

Ones(n) == [i \in 1..n |-> 1]

\* The n low bits of the natural number v (n at most 31).
ToBits(v, n) == [i \in 1..n |-> (v \div 2^(n - i)) % 2]

\* The natural number the bits b stand for (b of at most 31 bits), by halves.
RECURSIVE FromBits(_)
FromBits(b) ==
    IF Len(b) = 0 THEN 0
    ELSE IF Len(b) = 1 THEN b[1]
    ELSE LET h == Len(b) \div 2
         IN  FromBits(SubSeq(b, 1, h)) * 2^(Len(b) - h)
                 + FromBits(SubSeq(b, h + 1, Len(b)))

Not(b) == [i \in 1..Len(b) |-> 1 - b[i]]

Xor(a, b) == [i \in 1..Len(a) |-> (a[i] + b[i]) % 2]

\* int64(n) for an integer n the model checker can hold.
Int64(n) ==
    IF n >= 0 THEN Zeros(33) \o ToBits(n, 31)
    ELSE Not(Zeros(33) \o ToBits(-n - 1, 31))

\* The four 16-bit words of an int64 as numbers, the lowest first.
Words(a) == [k \in 1..4 |-> FromBits(SubSeq(a, 65 - 16 * k, 80 - 16 * k))]

\* a + b on int64, word by word with the carry; the overflow is lost.
Add64(a, b) ==
    LET x  == Words(a)
        y  == Words(b)
        s1 == x[1] + y[1]
        s2 == x[2] + y[2] + s1 \div 2^16
        s3 == x[3] + y[3] + s2 \div 2^16
        s4 == x[4] + y[4] + s3 \div 2^16
    IN  ToBits(s4, 16) \o ToBits(s3, 16) \o ToBits(s2, 16) \o ToBits(s1, 16)

Neg64(a) == Add64(Not(a), Int64(1))

Sub64(a, b) == Add64(a, Neg64(b))

\* a << k and the logical a >> k.
Shl(a, k) == SubSeq(a, k + 1, 64) \o Zeros(k)

Shr(a, k) == Zeros(k) \o SubSeq(a, 1, 64 - k)

Low(a, n) == SubSeq(a, 64 - n + 1, 64)

\* Whether the int64 a is in the range of a signed integer of n bits.
Fits(a, n) == \A i \in 1..(64 - n + 1) : a[i] = a[1]

\* The integer an int64 in the range of 14 signed bits stands for.
Small(a) ==
    IF a[1] = 1 THEN FromBits(Low(a, 14)) - 2^14 ELSE FromBits(Low(a, 14))

\* bitRange(x, nbits): -(2^(nbits-1)) + 1 <= x <= 2^(nbits-1).
bitRange(x, nbits) ==
    /\ Fits(x, 14)
    /\ -(2^(nbits - 1)) + 1 <= Small(x)
    /\ Small(x) <= 2^(nbits - 1)

\* The unsigned varint of the uint64 u: groups of 7 bits, the lowest first,
\* each after a bit that tells whether another group follows.
RECURSIVE uvarint(_)
uvarint(u) ==
    IF \A i \in 1..57 : u[i] = 0 THEN <<0>> \o Low(u, 7)
    ELSE <<1>> \o Low(u, 7) \o uvarint(Shr(u, 7))

\* The signed varint of x: the unsigned varint of (x << 1) ^ (x >> 63).
varint(x) == uvarint(Xor(Shl(x, 1), [i \in 1..64 |-> x[1]]))

\* The n bits of stream s from place pos on; past its end the bits are 0.
Read(s, pos, n) ==
    [i \in 1..n |-> IF pos + i - 1 <= Len(s) THEN s[pos + i - 1] ELSE 0]

RECURSIVE readUvarint(_, _)
readUvarint(s, pos) ==
    LET group == Read(s, pos + 1, 7)
    IN  IF Read(s, pos, 1)[1] = 0 \/ pos > Len(s)
        THEN [val |-> Zeros(57) \o group, pos |-> pos + 8]
        ELSE LET rest == readUvarint(s, pos + 8)
             IN  [val |-> SubSeq(rest.val, 8, 64) \o group, pos |-> rest.pos]

readVarint(s, pos) ==
    LET r == readUvarint(s, pos)
    IN  [val |-> Xor(Shr(r.val, 1), [i \in 1..64 |-> r.val[64]]),
         pos |-> r.pos]

\* The leading and the trailing zero bits of x, x not 0.
LeadingZeros(x) == (CHOOSE i \in 1..64 : x[i] = 1 /\ \A j \in 1..(i - 1) : x[j] = 0) - 1

TrailingZeros(x) ==
    64 - (CHOOSE i \in 1..64 : x[i] = 1 /\ \A j \in (i + 1)..64 : x[j] = 0)

\* The bits for a delta-of-delta: the prefix of its tier and its low bits.
dodBits(dod) ==
    IF dod = Int64(0) THEN <<0>>
    ELSE IF bitRange(dod, 7) THEN <<1, 0>> \o Low(dod, 7)
    ELSE IF bitRange(dod, 9) THEN <<1, 1, 0>> \o Low(dod, 9)
    ELSE IF bitRange(dod, 12) THEN <<1, 1, 1, 0>> \o Low(dod, 12)
    ELSE <<1, 1, 1, 1>> \o Low(dod, 32)

\* The bits for a value after value prev, with the window [leading,
\* trailing] of the last meaningful bits written (leading = -1: none yet),
\* and the window after it.
valueBits(prev, leading, trailing, v) ==
    LET x == Xor(v, prev)
    IN  IF x = Zeros(64)
        THEN [bits |-> <<0>>, leading |-> leading, trailing |-> trailing]
        ELSE LET lz == LeadingZeros(x)
                 tz == TrailingZeros(x)
             IN  IF leading # -1 /\ lz >= leading /\ tz >= trailing
                 THEN [bits |-> <<1, 0>>
                                \o SubSeq(x, leading + 1, 64 - trailing),
                       leading |-> leading, trailing |-> trailing]
                 ELSE [bits |-> <<1, 1>> \o ToBits(lz, 5)
                                \o ToBits(64 - lz - tz, 6)
                                \o SubSeq(x, lz + 1, 64 - tz),
                       leading |-> lz, trailing |-> tz]

\* newSeriesEncoder: nothing written yet.
newEncoder ==
    [n |-> 0, t |-> Zeros(64), tDelta |-> Zeros(64), v |-> Zeros(64),
     leading |-> -1, trailing |-> 0, stream |-> <<>>]

\* encodePoint(p): the first point in full, the second with its delta, the
\* others with their delta-of-delta; every value but the first as an XOR.
encodePoint(e, p) ==
    IF e.n = 0
    THEN [e EXCEPT !.n = 1, !.t = p.t, !.v = p.v,
                   !.stream = @ \o varint(p.t) \o p.v]
    ELSE LET tDelta == Sub64(p.t, e.t)
             val    == valueBits(e.v, e.leading, e.trailing, p.v)
             tBits  == IF e.n = 1 THEN uvarint(tDelta)
                       ELSE dodBits(Sub64(tDelta, e.tDelta))
         IN  [e EXCEPT !.n = @ + 1, !.t = p.t, !.tDelta = tDelta, !.v = p.v,
                       !.leading = val.leading, !.trailing = val.trailing,
                       !.stream = @ \o tBits \o val.bits]

\* flush(): the pending bits, padded to a byte boundary.
flush(e) ==
    [e EXCEPT !.stream = @ \o Zeros((8 - (Len(@) % 8)) % 8)]

\* newSeriesDecoder: at the start of the stream.
newDecoder ==
    [n |-> 0, t |-> Zeros(64), tDelta |-> Zeros(64), v |-> Zeros(64),
     leading |-> 0, trailing |-> 0, pos |-> 1]

\* The delta-of-delta at place pos: its tier from the prefix, then its bits.
\* A tier of n bits holds -(2^(n-1)) + 1 .. 2^(n-1), so that the pattern
\* above 2^(n-1) stands for a negative number; the last tier is 32 bits
\* signed.
readDod(s, pos) ==
    LET ones == IF Read(s, pos, 1) = <<0>> THEN 0
                ELSE IF Read(s, pos, 2) = <<1, 0>> THEN 1
                ELSE IF Read(s, pos, 3) = <<1, 1, 0>> THEN 2
                ELSE IF Read(s, pos, 4) = <<1, 1, 1, 0>> THEN 3
                ELSE 4
        sz   == CASE ones = 0 -> 0 [] ones = 1 -> 7 [] ones = 2 -> 9
                  [] ones = 3 -> 12 [] ones = 4 -> 32
        from == pos + (IF ones = 4 THEN 4 ELSE ones + 1)
        bits == Read(s, from, sz)
    IN  [val |-> IF sz = 0 THEN Zeros(64)
                 ELSE IF sz = 32
                 THEN [i \in 1..32 |-> bits[1]] \o bits
                 ELSE IF FromBits(bits) > 2^(sz - 1)
                 THEN Ones(64 - sz) \o bits
                 ELSE Zeros(64 - sz) \o bits,
         pos |-> from + sz]

\* The value at place pos after value prev, and the window after it.
readValue(s, pos, prev, leading, trailing) ==
    IF Read(s, pos, 1) = <<0>>
    THEN [val |-> prev, leading |-> leading, trailing |-> trailing,
          pos |-> pos + 1]
    ELSE IF Read(s, pos + 1, 1) = <<0>>
    THEN LET len == 64 - leading - trailing
         IN  [val |-> Xor(prev, Zeros(leading) \o Read(s, pos + 2, len)
                                \o Zeros(trailing)),
              leading |-> leading, trailing |-> trailing,
              pos |-> pos + 2 + len]
    ELSE LET lz  == FromBits(Read(s, pos + 2, 5))
             len == FromBits(Read(s, pos + 7, 6))
             tz  == IF 64 - lz - len < 0 THEN 0 ELSE 64 - lz - len
         IN  [val |-> Xor(prev, SubSeq(Zeros(lz) \o Read(s, pos + 13, len)
                                       \o Zeros(tz), 1, 64)),
              leading |-> lz, trailing |-> tz, pos |-> pos + 13 + len]

\* decodePoint: the decoder after the next point of stream s, and the point.
decodePoint(d, s) ==
    IF d.n = 0
    THEN LET r == readVarint(s, d.pos)
         IN  [d EXCEPT !.n = 1, !.t = r.val, !.v = Read(s, r.pos, 64),
                       !.pos = r.pos + 64]
    ELSE LET r      == IF d.n = 1 THEN readUvarint(s, d.pos)
                       ELSE readDod(s, d.pos)
             tDelta == IF d.n = 1 THEN r.val ELSE Add64(d.tDelta, r.val)
             val    == readValue(s, r.pos, d.v, d.leading, d.trailing)
         IN  [d EXCEPT !.n = @ + 1, !.t = Add64(d.t, tDelta),
                       !.tDelta = tDelta, !.v = val.val,
                       !.leading = val.leading, !.trailing = val.trailing,
                       !.pos = val.pos]

\* The bit patterns of the float64 values 0.1 and 1.1.
CodecValues ==
    {ToBits(16313, 16) \o ToBits(39321, 16) \o ToBits(39321, 16)
        \o ToBits(39322, 16),
     ToBits(16369, 16) \o ToBits(39321, 16) \o ToBits(39321, 16)
        \o ToBits(39322, 16)}

\* The first timestamps, the first deltas, and the delta-of-deltas the
\* points are made with: the ends of every tier, their neighbours, and the
\* ends of the 32 bits of the last tier with theirs.
FirstTimestamps == {Int64(0), Int64(1600000000)}

Deltas == {Int64(1), Int64(60), Int64(3000), Shl(Int64(1), 32)}

DeltaOfDeltas ==
    {Int64(d) : d \in {0, -63, 64, -64, 65, -255, 256, -256, 257, -2047,
                       2048, -2048, 2049, 2147483647}}
        \cup {Shl(Int64(1), 31), Neg64(Shl(Int64(1), 31)),
              Sub64(Neg64(Shl(Int64(1), 31)), Int64(1))}

\* The timestamps that may follow the points given so far, strictly above
\* the last.
NextTimestamps(input) ==
    LET n == Len(input)
    IN  IF n = 0 THEN FirstTimestamps
        ELSE IF n = 1 THEN {Add64(input[1].t, d) : d \in Deltas}
        ELSE LET delta == Sub64(input[n].t, input[n - 1].t)
             IN  {Add64(input[n].t, Add64(delta, dod)) :
                    dod \in {x \in DeltaOfDeltas :
                                /\ Add64(delta, x)[1] = 0
                                /\ Add64(delta, x) # Zeros(64)}}

InitCodec ==
    cod = [input |-> <<>>, enc |-> newEncoder, flushed |-> FALSE,
           dec |-> newDecoder, output |-> <<>>, eof |-> FALSE]

\* encoder.encodePoint(point) with the next point of an ascending list.
EncodePoint ==
    /\ ~cod.flushed
    /\ Len(cod.input) < MaxPoints
    /\ \E t \in NextTimestamps(cod.input), v \in CodecValues :
           LET p == [t |-> t, v |-> v]
           IN  cod' = [cod EXCEPT !.input = Append(@, p),
                                  !.enc = encodePoint(@, p)]
    /\ UNCHANGED <<listVars, th, mp, metrics, wal, mlast, writerVars, st>>

\* encoder.flush().
Flush ==
    /\ ~cod.flushed
    /\ Len(cod.input) >= 1
    /\ cod' = [cod EXCEPT !.enc = flush(@), !.flushed = TRUE]
    /\ UNCHANGED <<listVars, th, mp, metrics, wal, mlast, writerVars, st>>

\* decoder.decodePoint(p) on the flushed stream, once per point encoded.
DecodePoint ==
    /\ cod.flushed
    /\ Len(cod.output) < Len(cod.input)
    /\ LET d == decodePoint(cod.dec, cod.enc.stream)
       IN  cod' = [cod EXCEPT !.dec = d,
                              !.output = Append(@, [t |-> d.t, v |-> d.v]),
                              !.eof = @ \/ d.pos - 1 > Len(cod.enc.stream)]
    /\ UNCHANGED <<listVars, th, mp, metrics, wal, mlast, writerVars, st>>

\* ------------------------------------------------------- specifications

vars ==
    <<pl, nodes, cleaned, last, th, mp, metrics, wal, mlast, wr, objs, reg,
      rd, st, cod>>

Init ==
    /\ InitList
    /\ th = [t \in Threads |-> Idle]
    /\ InitMem
    /\ InitStorage
    /\ InitCodec

\* The list, one call at a time.
Insert == \E p \in Fresh(nodes) : insert(p) /\ UNCHANGED <<th, memVars>>

Remove == \E target \in Parts : remove(target) /\ UNCHANGED <<th, memVars>>

Swap ==
    \E old \in Parts, new \in Fresh(nodes) :
        swap(old, new) /\ UNCHANGED <<th, memVars>>

Next == Insert \/ Remove \/ Swap

Spec == Init /\ [][Next]_vars

\* The list is first filled by inserts made one at a time, partition
\* NumParts first and partitions 1 and 2, which share a minTimestamp, last;
\* then every thread makes one call.
NoneStarted == \A t \in Threads : th[t].pc = "idle"

Setup ==
    /\ NoneStarted
    /\ Fresh(nodes) # {}
    /\ insert(CHOOSE p \in Fresh(nodes) : \A q \in Fresh(nodes) : p >= q)
    /\ UNCHANGED <<th, memVars>>

\* Concurrent insert, remove and swap calls.
ConcInsert ==
    \E t \in Threads :
        \/ \E p \in Parts : InsertRead(t, p)
        \/ InsertSetHead(t)
        \/ InsertAdd(t)

ConcScan ==
    \E t \in Threads : ScanNew(t) \/ ScanStep(t)

ConcRemove ==
    \E t \in Threads :
        \/ \E target \in Parts : RemoveSize(t, target)
        \/ RemoveUnlink(t)
        \/ RemoveSetTail(t)
        \/ RemoveDec(t)
        \/ RemoveClean(t)

ConcSwap ==
    \E t \in Threads :
        \/ \E old \in Parts, new \in Parts : SwapSize(t, old, new)
        \/ SwapNext(t)
        \/ SwapLink(t)
        \/ SwapSetTail(t)

NextConc == Setup \/ ConcInsert \/ ConcScan \/ ConcRemove \/ ConcSwap

SpecConc == Init /\ [][NextConc]_vars

\* Concurrent getHead, insert and remove calls.
ConcGetHead ==
    \E t \in Threads : GetHeadSize(t) \/ GetHeadRead(t)

NextHead == Setup \/ ConcInsert \/ ConcScan \/ ConcRemove \/ ConcGetHead

SpecHead == Init /\ [][NextHead]_vars

\* One traversal, by thread 1, concurrent with swap calls by the others.
IterRead == IterNew(1) \/ IterStep(1)

IterSwap ==
    \E t \in Threads \ {1} :
        \/ \E old \in Parts, new \in Parts : SwapSize(t, old, new)
        \/ ScanNew(t)
        \/ ScanStep(t)
        \/ SwapNext(t)
        \/ SwapLink(t)
        \/ SwapSetTail(t)

NextIter == Setup \/ IterRead \/ IterSwap

SpecIter == Init /\ [][NextIter]_vars

\* One memory partition, insertRows called one at a time.
InsertRows ==
    \E n \in 0..MaxBatch :
        /\ wal.rows + n <= MaxRows
        /\ \E rows \in [1..n -> Rows] :
               /\ insertRows(rows, FALSE)
               /\ UNCHANGED <<listVars, th, pureVars, writerVars>>

\* insertRows when the log refuses the batch. The call returns before it
\* reads a row, so one batch of each length stands for all of that length.
RefusedRows == {CHOOSE row \in Rows : TRUE}

InsertRowsRefused ==
    \E n \in 0..MaxBatch :
        /\ wal.rows + n <= MaxRows
        /\ \E rows \in [1..n -> RefusedRows] :
               /\ insertRows(rows, TRUE)
               /\ UNCHANGED <<listVars, th, pureVars, writerVars>>

\* The calls of selectDataPoints on one metric with every window: the
\* state keeps of a call the series map and whether it panicked.
SelectDataPoints ==
    \E name \in Metrics :
        \E panic \in {selectDataPoints(metrics, name, start, end).panic :
                          start \in QueryTimes, end \in QueryTimes} :
            /\ metrics' = getMetric(metrics, name)
            /\ mlast' = MCall("selectDataPoints", FALSE,
                               IF panic THEN "panic" ELSE "", <<>>, <<>>)
            /\ UNCHANGED <<mp, wal, listVars, th, pureVars, writerVars>>

Encode ==
    \E name \in Metrics, failAt \in 0..1 :
        /\ EncodeAllPoints(name, failAt)
        /\ UNCHANGED <<listVars, th, pureVars, writerVars>>

NextMem == InsertRows \/ InsertRowsRefused

SpecMem == Init /\ [][NextMem]_vars

\* One memory partition, insertRows called by the writers at once.
Start ==
    \E w \in Writers, rows \in WriterBatches, walErr \in BOOLEAN :
        WriterStart(w, rows, walErr)

Once == \E w \in Writers : WriterOnce(w)

Load == \E w \in Writers : WriterLoad(w)

Store == \E w \in Writers : WriterStore(w)

Size == \E w \in Writers : WriterSize(w)

Locked == \E w \in Writers : WriterLocked(w)

CountRows == \E w \in Writers : WriterCount(w)

SwapMaxT == \E w \in Writers : WriterSwap(w)

NextMemConc ==
    Start \/ Once \/ Load \/ Store \/ Size \/ Locked \/ CountRows \/ SwapMaxT

SpecMemConc == Init /\ [][NextMemConc]_vars

\* One memory partition, insertRows and selectDataPoints called one at a time.
\* One goroutine calling insertRows again and again, a row at a time, and
\* one call of selectDataPoints interleaved with it.
TheWriter == CHOOSE w \in Writers : TRUE

TheReader == CHOOSE r \in Readers : TRUE

WriteStart ==
    \E rows \in WriterBatches :
        /\ wal.rows + Len(rows) <= MaxRows
        /\ WriterStart(TheWriter, rows, FALSE)

WriteRows ==
    \/ WriterOnce(TheWriter)
    \/ WriterLoad(TheWriter)
    \/ WriterStore(TheWriter)
    \/ WriterCount(TheWriter)
    \/ WriterSwap(TheWriter)
    \/ WriterReturn(TheWriter)

WritePoint ==
    \/ WriterSize(TheWriter)
    \/ WriterAppend(TheWriter)
    \/ WriterSetMin(TheWriter)
    \/ WriterSetMax(TheWriter)
    \/ WriterAddSize(TheWriter)

ReadPoints ==
    \/ \E name \in Metrics : ReaderLoad(TheReader, name)
    \/ ReaderStore(TheReader)
    \/ ReaderSize(TheReader)
    \/ ReaderMin(TheReader)
    \/ \E start \in QueryTimes, end \in QueryTimes :
           ReaderMax(TheReader, start, end)
    \/ ReaderSlice(TheReader)

NextRead == WriteStart \/ WriteRows \/ WritePoint \/ ReadPoints

SpecRead == Init /\ [][NextRead]_vars

NextStorage == SeedPartition \/ StorageSelect

SpecStorage == Init /\ [][NextStorage]_vars

NextCodec == EncodePoint \/ Flush \/ DecodePoint

SpecCodec == Init /\ [][NextCodec]_vars

NextSelect == InsertRows \/ InsertRowsRefused \/ SelectDataPoints

SpecSelect == Init /\ [][NextSelect]_vars

\* One memory partition, insertRows and encodeAllPoints called one at a time.
NextEncode == InsertRows \/ InsertRowsRefused \/ Encode

SpecEncode == Init /\ [][NextEncode]_vars

\* --------------------------------------------------- properties, the list

\* Sequence s without its i-th element.
RemoveAt(s, i) == [j \in 1..(Len(s) - 1) |-> IF j < i THEN s[j] ELSE s[j + 1]]

\* The last node of the chain from head, Nil for the empty chain.
LastNode(l, ns) ==
    IF Chain(l, ns) = <<>> THEN Nil ELSE Chain(l, ns)[Len(Chain(l, ns))]

\* Whether some node was unlinked by remove (its partition was cleaned).
SomeRemoved == \E p \in Parts : cleaned[p] > 0

\* Whether some node was replaced by swap (allocated, off the list, and its
\* partition never cleaned).
SomeSwapped ==
    \E p \in Parts : /\ nodes[p] # NoNode
                     /\ p \notin Range(Chain(pl, nodes))
                     /\ cleaned[p] = 0

\* C1: after any sequence of insert, remove and swap calls run one at a
\* time, size() is the number of nodes reachable from head.
C1_SizeIsReachableCount == size(pl) = Len(Chain(pl, nodes))

C1_Witness ==
    /\ size(pl) >= 2
    /\ SomeRemoved
    /\ SomeSwapped

\* C2: after any sequence of insert, remove and swap calls, tail is the last
\* node reachable from head, and tail is nil exactly when head is nil and
\* size is 0.
C2_TailIsLastNode ==
    /\ pl.tail = LastNode(pl, nodes)
    /\ (pl.tail = Nil) = (pl.head = Nil)
    /\ (pl.tail = Nil) = (size(pl) = 0)

\* C3: right after insert(p), getHead() is p and the iteration from head
\* yields p followed by the partitions the list held before, in their order.
C3_InsertPrepends ==
    [][last'.op = "insert" =>
        \A p \in Parts :
            insert(p) =>
                /\ getHead(pl', nodes') = p
                /\ Values(pl', nodes') = <<p>> \o Values(pl, nodes)]_listVars

C3_Witness == last.op = "insert" /\ last.len >= 2

\* C4: a successful remove(target) unlinks exactly the matching node (the
\* first one from head), keeps the other nodes in their order, takes 1 from
\* size, and calls clean() once, on the removed partition only.
C4_RemoveUnlinksOne ==
    [][(last'.op = "remove" /\ ~last'.err) =>
        \A target \in Parts :
          remove(target) =>
            LET c == Chain(pl, nodes)
                i == FirstMatch(nodes, c, target)
            IN  /\ i # 0
                /\ Chain(pl', nodes') = RemoveAt(c, i)
                /\ Values(pl', nodes') = RemoveAt(Values(pl, nodes), i)
                /\ size(pl') = size(pl) - 1
                /\ cleaned' = [cleaned EXCEPT ![nodes[c[i]].val] = @ + 1]]_listVars

C4_Witness ==
    last.op = "remove" /\ ~last.err /\ last.pos = 2 /\ last.len = 3

\* Position of partition p in the sequence v of partitions, 0 when absent.
IndexOf(v, p) ==
    IF p \in Range(v) THEN CHOOSE i \in 1..Len(v) : v[i] = p ELSE 0

\* C5 as stated: a successful swap(old, new), old a partition of the list,
\* puts new at the position old had, leaves the rest and size as they were, makes old unreachable and
\* calls no clean().
C5_SwapAtOldsPosition ==
    [][(last'.op = "swap" /\ ~last'.err) =>
        \A old \in Range(Values(pl, nodes)), new \in Parts :
          swap(old, new) =>
            LET v == Values(pl, nodes)
            IN  /\ Values(pl', nodes') = [v EXCEPT ![IndexOf(v, old)] = new]
                /\ old \notin Range(Values(pl', nodes'))
                /\ size(pl') = size(pl)
                /\ cleaned' = cleaned]_listVars

\* C5 amended: a successful swap(old, new) puts new at the position of the
\* first node from head whose partition has old's minTimestamp, which is
\* old's own position when old is in the list and no other partition of the
\* list has its minTimestamp; the rest of the list and size are unchanged,
\* the partition that was at that position is unreachable, no clean().
C5_SwapAtFirstMatch ==
    [][(last'.op = "swap" /\ ~last'.err) =>
        \A old \in Parts, new \in Parts :
          swap(old, new) =>
            LET v == Values(pl, nodes)
                c == Chain(pl, nodes)
                i == FirstMatch(nodes, c, old)
            IN  /\ i # 0
                /\ Values(pl', nodes') = [v EXCEPT ![i] = new]
                /\ \A j \in 1..Len(c) :
                       j # i => Chain(pl', nodes')[j] = c[j]
                /\ v[i] \notin Range(Values(pl', nodes'))
                /\ size(pl') = size(pl)
                /\ cleaned' = cleaned
                /\ (/\ old \in Range(v)
                    /\ \A q \in Range(v) : samePartitions(q, old) => q = old)
                   => v[i] = old]_listVars

C5_Witness ==
    last.op = "swap" /\ ~last.err /\ last.pos = 2 /\ last.len = 3

\* Whether remove(target) or swap(target, _) has nothing to act on.
NothingToMatch(target) ==
    \/ Chain(pl, nodes) = <<>>
    \/ FirstMatch(nodes, Chain(pl, nodes), target) = 0

\* C6: remove(p) and swap(old, new) return an error when the list is empty
\* or holds no partition matching the target, and then leave head, tail,
\* size and every node as they were and call no clean().
C6_FailureChangesNothing ==
    [][\A target \in Parts :
        NothingToMatch(target) =>
            /\ remove(target) =>
                   (last'.err /\ UNCHANGED <<pl, nodes, cleaned>>)
            /\ \A new \in Parts :
                   swap(target, new) =>
                       (last'.err /\ UNCHANGED <<pl, nodes, cleaned>>)]_listVars

C6_Witness ==
    /\ last.op \in {"remove", "swap"}
    /\ last.err /\ last.why = "notfound"
    /\ size(pl) >= 2


\* --------------------------------------- properties, calls that interleave

AllReturned == \A t \in Threads : th[t].pc \in {"idle", "done"}

\* Whether partition p was put in the list by insert and no remove or swap
\* call unlinked its node.
InsertedAndKept(p) ==
    /\ nodes[p] # NoNode
    /\ \A t \in Threads : th[t].new # p
    /\ \A t \in Threads : ~(th[t].op \in {"remove", "swap"} /\ th[t].cur = p)

\* C7: under any interleaving of concurrent insert (and remove, swap) calls,
\* once all calls have returned every inserted and not removed partition is
\* reachable from head and size() is the number of reachable nodes.
C7_NoInsertLost ==
    AllReturned =>
        /\ size(pl) = Len(Chain(pl, nodes))
        /\ \A p \in Parts :
               InsertedAndKept(p) => p \in Range(Values(pl, nodes))

\* The partitions the list was filled with before the calls started.
SetupParts ==
    {p \in Parts : nodes[p] # NoNode /\ \A t \in Threads : th[t].new # p}

\* The list the calls started on, from head: the setup puts the partition
\* with the smallest number in last.
Orig ==
    [j \in 1..Cardinality(SetupParts) |->
        CHOOSE p \in SetupParts :
            Cardinality({q \in SetupParts : q < p}) = j - 1]

\* The partitions that were at place j of the list at some moment: the one
\* the list started with and the ones a swap has made a node for.
Occupants(j) ==
    {Orig[j]} \cup {th[t].new : t \in {u \in Threads :
                        /\ th[u].op = "swap"
                        /\ th[u].pos = j
                        /\ th[u].pc \in {"swp_next", "swp_link", "swp_tail", "done"}
                        /\ th[u].err = ""}}

\* C8: a traversal concurrent with swap calls visits every place of the
\* list once, in order, and at each place the partition that was there or
\* one swapped in there: no place is skipped or visited twice.
C8_TraversalSeesEveryPlace ==
    LET v == th[1].visited
    IN  /\ Len(v) <= Len(Orig)
        /\ \A j \in 1..Len(v) : v[j] \in Occupants(j)
        /\ th[1].pc = "done" => Len(v) = Len(Orig)

\* The traversal has visited the first of three places and a swap of the
\* second is about to link its node.
C8_Witness ==
    /\ th[1].pc = "iter" /\ Len(th[1].visited) = 1
    /\ Len(Orig) = 3
    /\ \E t \in Threads : th[t].pc = "swp_link" /\ th[t].pos = 2

\* -------------------------------------------- properties, memory partition

\* The smallest timestamp among the rows of a batch that has rows.
Smallest(rows) ==
    CHOOSE t \in {rows[i].ts : i \in 1..Len(rows)} :
        \A i \in 1..Len(rows) : t <= rows[i].ts

\* C9: insertRows called with an empty batch returns an error, appends
\* nothing to the write-ahead log, and leaves minT, maxT, numPoints, the
\* first-insert latch and every series as they were.
C9_EmptyBatchChangesNothing ==
    [][\A walErr \in BOOLEAN :
          insertRows(<<>>, walErr) =>
              /\ mlast'.err
              /\ UNCHANGED <<mp, metrics, wal>>]_vars

C9_Witness ==
    /\ mlast.op = "insertRows" /\ mlast.why = "norows"
    /\ mp.numPoints > 0

\* C10: when wal.append fails insertRows returns the error and has changed
\* nothing in memory: no series is made or extended, numPoints, minT and maxT
\* are as they were and the first-insert latch is not consumed, so that a
\* later batch the log accepts still sets minT, to its smallest timestamp.
C10_WalFailureChangesNothing ==
    [][/\ (mlast'.op = "insertRows" /\ mlast'.why = "wal") =>
           /\ mlast'.err
           /\ UNCHANGED <<mp, metrics>>
       /\ (~mp.once /\ mp'.once) =>
           \A rows \in Batches :
               (Len(rows) > 0 /\ insertRows(rows, FALSE)) =>
                   mp'.minT = Smallest(rows)
       /\ (~mp.once /\ mlast'.op = "insertRows" /\ ~mlast'.err) =>
           mp'.once]_vars

C10_Witness ==
    /\ wal.failed /\ wal.appends = 1
    /\ mlast.op = "insertRows" /\ ~mlast.err
    /\ mp.once /\ mp.minT > 0

\* Whether the step is an insertRows call the log accepted.
Accepted == mlast'.op = "insertRows" /\ ~mlast'.err

\* C11: minT is set by the first successful insertRows to the smallest
\* timestamp of that batch and never changes afterwards, whatever later
\* batches hold, smaller timestamps included.
C11_MinTSetOnce ==
    [][/\ (~mp.once /\ Accepted) =>
              (mp'.once /\ mp'.minT = Smallest(mlast'.rows))
       /\ (~mp.once /\ ~Accepted) => (~mp'.once /\ mp'.minT = mp.minT)
       /\ mp.once => (mp'.once /\ mp'.minT = mp.minT)]_vars

C11_Witness ==
    /\ mp.once /\ mlast.op = "insertRows" /\ mlast.rows # <<>>
    /\ Smallest(mlast.rows) < mp.minT

\* The rows of a batch with a timestamp below t, and the others, in order.
Below(rows, t) == SelectSeq(rows, LAMBDA row : row.ts < t)

NotBelow(rows, t) == SelectSeq(rows, LAMBDA row : row.ts >= t)

\* The timestamps a series holds, in points and in outOfOrderPoints.
Stored(mt) == IF mt = NoMetric THEN <<>> ELSE mt.points \o mt.outOfOrderPoints

\* How many elements of s satisfy being equal to x.
Count(s, x) == Cardinality({i \in 1..Len(s) : s[i] = x})

\* The timestamp a row is stored with.
StoredTs(row) == IF row.ts = 0 THEN now ELSE row.ts

\* C12: for every batch with rows the log accepts, insertRows returns the
\* rows whose timestamp is below minT, in input order; none of them is
\* stored or counted, and every other row is stored in its series, in
\* points or in outOfOrderPoints.
C12_OutdatedRowsReturned ==
    [][Accepted =>
          LET rows == mlast'.rows
              kept == NotBelow(rows, mp'.minT)
          IN  /\ mlast'.outdated = Below(rows, mp'.minT)
              /\ mp'.numPoints = mp.numPoints + Len(kept)
              /\ \A name \in Metrics, t \in 0..now :
                     Count(Stored(metrics'[name]), t) =
                         Count(Stored(metrics[name]), t)
                         + Cardinality({i \in 1..Len(kept) :
                                           /\ kept[i].metric = name
                                           /\ StoredTs(kept[i]) = t})]_vars

C12_Witness ==
    /\ mlast.op = "insertRows" /\ ~mlast.err
    /\ mlast.outdated # <<>>
    /\ Len(mlast.outdated) < Len(mlast.rows)

\* The names the partition holds a series for.
Present == {name \in Metrics : metrics[name] # NoMetric}

\* The points of s with a timestamp in [start, end), in order.
InWindow(s, start, end) == SelectSeq(s, LAMBDA t : start <= t /\ t < end)

\* C13: for every series and every window with start < end,
\* selectDataPoints returns exactly the in-order points with
\* start <= timestamp < end, in ascending order; end is exclusive for every
\* end, also when it is the series' largest timestamp.
C13_SelectEndExclusive ==
    \A name \in Present, start \in QueryTimes, end \in QueryTimes :
        start < end =>
            LET r == selectDataPoints(metrics, name, start, end)
            IN  /\ ~r.panic
                /\ r.points = InWindow(metrics[name].points, start, end)

\* C14: selectDataPoints with end <= start returns an empty result and does
\* not fail, for every series and every such start and end.
C14_SelectEmptyWindow ==
    \A name \in Present, start \in QueryTimes, end \in QueryTimes :
        end <= start =>
            LET r == selectDataPoints(metrics, name, start, end)
            IN  ~r.panic /\ r.points = <<>>

\* Whether s is a run of consecutive elements of points.
IsSlice(s, points) ==
    \E a \in 1..(Len(points) + 1), b \in 0..Len(points) :
        s = SubSeq(points, a, b)

\* C15: a point whose timestamp is not greater than the last in-order point
\* of its series is appended to outOfOrderPoints only, leaving points, the
\* series' minTimestamp, maxTimestamp and size as they were; and what
\* selectDataPoints returns is taken from points alone, so that no call
\* returns such a point.
C15_OutOfOrderKeptApart ==
    \A name \in Present :
        LET mt == metrics[name]
        IN  /\ \A ts \in 1..now :
                (mt.size > 0 /\ ts <= mt.points[mt.size]) =>
                    insertPoint(mt, ts) =
                        [mt EXCEPT !.outOfOrderPoints = Append(@, ts)]
            /\ \A t \in Range(mt.outOfOrderPoints) :
                \E i \in 1..Len(mt.points) : t <= mt.points[i]
            /\ \A start \in QueryTimes, end \in QueryTimes :
                LET r == selectDataPoints(metrics, name, start, end)
                IN  ~r.panic => IsSlice(r.points, mt.points)

C15_Witness ==
    /\ mlast.op = "selectDataPoints" /\ mlast.why = ""
    /\ \E name \in Present :
           /\ metrics[name].outOfOrderPoints # <<>>
           /\ Len(metrics[name].points) >= 2

\* C16: encodeAllPoints gives the encoder every point of points and of
\* outOfOrderPoints exactly once, in non-decreasing timestamp order, and of
\* an in-order and an out-of-order point with one timestamp the in-order
\* point first.
C16_EncodeMergesSorted ==
    \A name \in Present :
        LET mt  == metrics[name]
            r   == encodeAllPoints(mt, 0)
            out == r.out
            Of(from) == SelectSeq(out, LAMBDA e : e.from = from)
            Ts(s) == [i \in 1..Len(s) |-> s[i].ts]
        IN  /\ ~r.err
            /\ Len(out) = Len(mt.points) + Len(mt.outOfOrderPoints)
            /\ Ts(Of("in")) = mt.points
            /\ \A t \in 0..now :
                   Count(Ts(Of("ooo")), t) = Count(mt.outOfOrderPoints, t)
            /\ \A i \in 1..(Len(out) - 1) : out[i].ts <= out[i + 1].ts
            /\ \A i \in 1..Len(out), j \in 1..Len(out) :
                   (i < j /\ out[i].ts = out[j].ts) =>
                       ~(out[i].from = "ooo" /\ out[j].from = "in")

C16_Witness ==
    /\ mlast.op = "encodeAllPoints" /\ ~mlast.err
    /\ \E name \in Present :
           /\ Len(metrics[name].points) >= 2
           /\ \E t \in Range(metrics[name].outOfOrderPoints) :
                  t \in Range(metrics[name].points)

\* C17: in every state reached by insertRows calls made one at a time, each
\* series' points are in ascending timestamp order, its minTimestamp is the
\* first point's timestamp, its maxTimestamp the last point's, and its size
\* the length of points.
C17_SeriesDescribesPoints ==
    \A name \in Present :
        LET mt == metrics[name]
        IN  /\ \A i \in 1..(Len(mt.points) - 1) :
                   mt.points[i] <= mt.points[i + 1]
            /\ mt.size = Len(mt.points)
            /\ mt.size > 0 =>
                   /\ mt.minTimestamp = mt.points[1]
                   /\ mt.maxTimestamp = mt.points[Len(mt.points)]

C17_Witness ==
    /\ mlast.op = "insertRows"
    /\ \E name \in Present :
           /\ Len(metrics[name].points) >= 2
           /\ metrics[name].outOfOrderPoints # <<>>

\* ----------------------------- properties, memory partition, interleaved

\* The series objects made so far.
Made == {o \in Objects : objs[o] # NoMetric}

AllWritten == \A w \in Writers : wr[w].pc \in {"idle", "done"}

\* C18: under any interleaving of insertRows calls on one series, points
\* stays in ascending timestamp order and minTimestamp, maxTimestamp and
\* size keep describing it (first, last, length): two first insertions
\* cannot both take the branch for the empty series.
C18_SeriesInsertSerialized ==
    \A o \in Made :
        LET mt == objs[o]
        IN  /\ \A i \in 1..(Len(mt.points) - 1) :
                   mt.points[i] <= mt.points[i + 1]
            /\ mt.size = Len(mt.points)
            /\ mt.size > 0 =>
                   /\ mt.minTimestamp = mt.points[1]
                   /\ mt.maxTimestamp = mt.points[Len(mt.points)]

\* The rows of writer w's batch that its call has stored or will store.
KeptRows(w) ==
    IF wr[w].err # "" THEN <<>> ELSE NotBelow(wr[w].rows, mp.minT)

\* C19: under any interleaving of insertRows calls naming a metric the
\* partition does not hold yet, one series object is ever stored under the
\* name and it is never replaced, and once the calls have returned no point
\* inserted for the metric is lost.
C19_SeriesMadeOnce ==
    /\ \A o \in Made : reg[o[2]] = o
    /\ AllWritten =>
           \A name \in Metrics :
               Len(Stored(IF reg[name] = NoObj THEN NoMetric
                          ELSE objs[reg[name]])) =
                   Cardinality({<<w, i>> \in Writers \X (1..2) :
                                   /\ i <= Len(KeptRows(w))
                                   /\ KeptRows(w)[i].metric = name})

\* C20: under any interleaving of insertRows calls maxT never decreases,
\* and once the calls have returned it is at least the largest timestamp of
\* any stored row.
C20_MaxTAdvances ==
    [][/\ mp'.maxT >= mp.maxT
       /\ AllWritten' =>
              \A o \in Objects :
                  \A t \in Range(Stored(objs'[o])) : mp'.maxT >= t]_vars

\* ------------------------------------- properties, the list, its targets

\* The index in the sequence v of partitions of the first one whose
\* minTimestamp is t, 0 when there is none.
FirstWithMin(v, t) ==
    IF \E i \in 1..Len(v) : minTimestamp(v[i]) = t
    THEN CHOOSE i \in 1..Len(v) :
            /\ minTimestamp(v[i]) = t
            /\ \A j \in 1..(i - 1) : minTimestamp(v[j]) # t
    ELSE 0

\* C26: remove and swap find their target by minTimestamp alone and act on
\* at most one node per call, the first node from head whose partition has
\* the target's minTimestamp, also when another partition of the list (or
\* the target itself, further down) has the same minTimestamp; they return
\* an error and change nothing when no node has it.
C26_FirstByMinTimestamp ==
    [][last'.op \in {"remove", "swap"} =>
        LET v == Values(pl, nodes)
            w == Values(pl', nodes')
        IN  \A target \in Parts :
              LET i == FirstWithMin(v, minTimestamp(target))
              IN  /\ (last'.op = "remove" /\ remove(target)) =>
                        IF i = 0
                        THEN last'.err /\ UNCHANGED <<pl, nodes, cleaned>>
                        ELSE /\ w = RemoveAt(v, i)
                             /\ cleaned' = [cleaned EXCEPT ![v[i]] = @ + 1]
                  /\ last'.op = "swap" =>
                        \A new \in Fresh(nodes) :
                          swap(target, new) =>
                            IF i = 0
                            THEN /\ last'.err
                                 /\ UNCHANGED <<pl, nodes, cleaned>>
                            ELSE /\ w = [v EXCEPT ![i] = new]
                                 /\ cleaned' = cleaned]_listVars

\* Partitions 1 and 2 both report minTimestamp 0; both were in the list, 2
\* nearer to head, and the one remove that succeeded took 2 and left 1.
C26_Witness ==
    /\ last.op = "remove" /\ ~last.err
    /\ cleaned = [p \in Parts |-> IF p = 2 THEN 1 ELSE 0]
    /\ 1 \in Range(Values(pl, nodes))

\* C29: when clean() of the matched partition fails, remove returns an error
\* although the node is already unlinked and size already one less: the
\* list a failed remove leaves is not the list it found.
C29_CleanFailureAfterUnlink ==
    [][(last'.op = "remove" /\ last'.why = "clean") =>
        LET v == Values(pl, nodes)
        IN  /\ last'.err
            /\ last'.pos \in 1..Len(v)
            /\ Values(pl', nodes') = RemoveAt(v, last'.pos)
            /\ size(pl') = size(pl) - 1
            /\ cleaned' = [cleaned EXCEPT ![v[last'.pos]] = @ + 1]
            /\ pl' # pl]_listVars

C29_Witness ==
    /\ last.op = "remove" /\ last.err /\ last.why = "clean"
    /\ last.len = 3 /\ size(pl) = 2 /\ Len(Chain(pl, nodes)) = 2

\* ---------------------------------- properties, memory partition, counts

\* The points the series named in names hold, in order and out of order.
RECURSIVE TotalStored(_, _)
TotalStored(ms, names) ==
    IF names = {} THEN 0
    ELSE LET name == CHOOSE x \in names : TRUE
         IN  Len(Stored(ms[name])) + TotalStored(ms, names \ {name})

\* C28: with insertRows called one at a time, numPoints is the number of
\* rows accepted so far: every call adds the rows of its batch it did not
\* return as outdated, a call that fails adds nothing, and numPoints is the
\* sum over the series of len(points) + len(outOfOrderPoints).
C28_NumPointsCountsAccepted ==
    [][/\ mp'.numPoints = mp.numPoints +
                (IF Accepted
                 THEN Len(mlast'.rows) - Len(mlast'.outdated) ELSE 0)
       /\ mp'.numPoints = TotalStored(metrics', Metrics)
      ]_<<mp, metrics, wal, mlast>>

\* Rows were accepted, a batch lost a row as outdated, the log refused a
\* batch, and a series holds an out-of-order point.
C28_Witness ==
    /\ mp.numPoints >= 2
    /\ mlast.op = "insertRows" /\ ~mlast.err /\ mlast.outdated # <<>>
    /\ Len(mlast.rows) > Len(mlast.outdated)
    /\ wal.failed
    /\ wal.rows > mp.numPoints
    /\ \E name \in Present : metrics[name].outOfOrderPoints # <<>>

\* ---------------------------------- properties, memory partition, reads

\* C25: selectDataPoints reads only: for a metric the partition holds or
\* not and for every window it leaves minT, maxT, numPoints, every series
\* and the set of names in the metrics map as they were.
C25_SelectReadsOnly ==
    [][mlast'.op = "selectDataPoints" =>
        /\ mp' = mp
        /\ metrics' = metrics
        /\ {name \in Metrics : metrics'[name] # NoMetric} = Present
      ]_<<mp, metrics, wal, mlast>>

\* ------------------------- properties, memory partition, past its duration

\* C27: insertRows does not look at active(). On a partition whose range
\* maxT - minT + 1 has reached partitionDuration, a batch the log accepts
\* is appended to the log whole, its rows below minT are returned, and every
\* other row is stored in its series and counted, as on an active one.
C27_InactiveStaysWritable ==
    [][(~active(mp) /\ Accepted) =>
          LET rows == mlast'.rows
              kept == NotBelow(rows, mp.minT)
          IN  /\ rows # <<>>
              /\ wal' = walAppend(wal, rows)
              /\ mlast'.outdated = Below(rows, mp.minT)
              /\ mp'.numPoints = mp.numPoints + Len(kept)
              /\ TotalStored(metrics', Metrics) =
                     TotalStored(metrics, Metrics) + Len(kept)
              /\ \A i \in 1..Len(kept) :
                     StoredTs(kept[i]) \in
                         Range(Stored(metrics'[kept[i].metric]))
      ]_<<mp, metrics, wal, mlast>>

\* The last batch was accepted and rows of it stored although the partition
\* was inactive before the call: minT was set by an earlier batch, and maxT
\* is above every timestamp the batch stored, so it had its value before.
C27_Witness ==
    /\ ~active(mp)
    /\ wal.appends >= 2
    /\ mlast.op = "insertRows" /\ ~mlast.err
    /\ Len(mlast.rows) > Len(mlast.outdated)
    /\ \A i \in 1..Len(mlast.rows) : StoredTs(mlast.rows[i]) < mp.maxT

\* ------------------- properties, memory partition, the log and the memory

\* The writers whose insertRows call is past a wal.append that returned nil.
PastLog(ws) == {w \in Writers : ws[w].pc # "idle" /\ ws[w].err = ""}

\* The rows of the batches of the writers in set.
RECURSIVE RowsOf(_, _)
RowsOf(ws, set) ==
    IF set = {} THEN 0
    ELSE LET w == CHOOSE x \in set : TRUE
         IN  Len(ws[w].rows) + RowsOf(ws, set \ {w})

\* Every point a series holds is a row of a batch the log already has.
StoredIsLogged(ws, os) ==
    \A o \in Objects :
        \A t \in Range(Stored(os[o])) :
            \E w \in PastLog(ws) :
                \E i \in 1..Len(ws[w].rows) :
                    /\ ws[w].rows[i].metric = o[2]
                    /\ StoredTs(ws[w].rows[i]) = t

\* C22: within an insertRows call the whole batch, the rows later returned
\* as outdated included, is in the log before the call changes minT, maxT,
\* numPoints or a series: a step that changes one of them belongs to a call
\* that is past wal.append and leaves the log alone, the log holds every row
\* of every batch past wal.append, and so every point a reader can find in
\* a series is a row the log holds.
C22_LogBeforeMemory ==
    [][/\ wal.rows = RowsOf(wr, PastLog(wr))
       /\ wal'.rows = RowsOf(wr', PastLog(wr'))
       /\ StoredIsLogged(wr', objs')
       /\ (mp' # mp \/ objs' # objs \/ reg' # reg) =>
              /\ wal' = wal
              /\ \E w \in PastLog(wr) :
                     /\ wr[w].pc # "done"
                     /\ wr'[w] # wr[w]
                     /\ wr'[w].rows = wr[w].rows
                     /\ \A x \in Writers \ {w} : wr'[x] = wr[x]
      ]_<<mp, wal, writerVars>>

\* Both calls returned; one returned its row as outdated, the other stored
\* its row, and the log holds both rows.
C22_Witness ==
    /\ AllWritten
    /\ \E w \in Writers : wr[w].pc = "done" /\ wr[w].outdated # <<>>
    /\ mp.numPoints = 1
    /\ wal.rows = 2

\* ------------------------------------------- properties, the list's head

\* C30: in every interleaving with insert and remove, the removal of the
\* only partition included, getHead never dereferences a nil head.
C30_GetHeadNeverPanics ==
    \A t \in Threads : th[t].op = "getHead" => th[t].err # "panic"

\* --------------------- properties, memory partition, a read during writes

\* C21: a selectDataPoints call that runs while one goroutine calls
\* insertRows on the same series does not panic, and returns the points
\* with start <= timestamp < end of a prefix of the series' in-order
\* points.
C21_SelectSeesPrefix ==
    rd.pc = "done" =>
        /\ ~rd.panic
        /\ \E n \in 0..Len(objs[rd.mt].points) :
               rd.points =
                   InWindow(SubSeq(objs[rd.mt].points, 1, n), rd.start, rd.end)

\* ------------------------------------------------- properties, the storage

\* C23: Select over a list of partitions that hold disjoint, increasing
\* timestamp ranges of one metric returns, as one sequence in ascending
\* order, exactly the inserted points with start <= timestamp < end.
C23_SelectAcrossPartitions ==
    (st.sel.done /\ Len(st.parts) >= 2) =>
        st.sel.points = InWindow(st.inserted, st.sel.start, st.sel.end)

\* --------------------------------------------------- properties, the codec

\* C24: for every list of points with strictly ascending timestamps, the
\* points decoded from the flushed stream, as many as were encoded, are the
\* points encoded, whatever tier their delta-of-deltas fall in.
C24_CodecRoundTrip ==
    (cod.flushed /\ Len(cod.output) = Len(cod.input)) =>
        (~cod.eof /\ cod.output = cod.input)
====
